---- MODULE Spec2Model ----
(***************************************************************************)
(* State-machine model of the crafting-core contract (crafting/src):       *)
(* the DebtPool and AccountBook ledgers, the price oracle, the collateral  *)
(* registry, the deposit accounts and the promise callbacks.               *)
(*                                                                         *)
(* Every persistent collection is modelled as a partial function whose     *)
(* DOMAIN is the set of present keys (an absent key is a missing entry).   *)
(* A call that panics leaves every ledger variable unchanged and only      *)
(* records the failed call in `last`.                                      *)
(***************************************************************************)
EXTENDS Integers, Sequences, FiniteSets, TLC

\* ------------------------------------------------------------------------
\* Program constants (utils.rs, account.rs)
\* ------------------------------------------------------------------------
FEE_DIVISOR == 1000
RATIO_DIVISOR == 1000000
PRICE_PRECISION == 100000
U32_STORAGE == 4
U64_STORAGE == 8
U128_STORAGE == 16
ACC_ID_STORAGE == 64
ACC_ID_AS_KEY_STORAGE == ACC_ID_STORAGE + 4
KEY_PREFIX_ACC == 64
ACC_ID_AS_CLT_KEY_STORAGE == ACC_ID_AS_KEY_STORAGE + 1
INIT_ACCOUNT_STORAGE ==
    ACC_ID_AS_CLT_KEY_STORAGE + 1 + U128_STORAGE + U32_STORAGE + U64_STORAGE

\* ------------------------------------------------------------------------
\* Bounds of the model
\* ------------------------------------------------------------------------
\* largest token or raft amount of a mint
MaxAmount == 2
\* mints (in flight or recorded) in the full specification
MaxCollaterals == 2
\* mints (in flight or recorded) in the join-only specification
MaxJoins == 3
\* largest token or raft amount of a mint in the join-only specification
MaxJoinAmount == 1
\* largest magnitude of a net position given to the signed helpers
MaxMagnitude == 3
\* largest price fed to the oracle in the oracle specification
MaxPrice == 2

\* calls of the swap entry points in one behaviour
MaxSwaps == 1
\* promise chains in flight at once
MaxPending == 1
\* promise chains in flight at once in the AccountBook specification
MaxBookPending == 2
\* largest AccountBook total or row of rUSD that a deposit may be made on top of
MaxBookAmount == 1

\* ------------------------------------------------------------------------
\* Universe of identifiers
\* ------------------------------------------------------------------------
OWNER == "owner"
Users == {"alice", "bob"}
AccountIds == Users \cup {OWNER}
RUSD == "rusd"
RBTC == "rbtc"
WNEAR == "wnear"
Rafts == {RUSD, RBTC}
Tokens == {WNEAR}
Assets == Rafts \cup Tokens

\* ------------------------------------------------------------------------
\* Partial maps
\* ------------------------------------------------------------------------
EmptyMap == [x \in {} |-> 0]

Insert(m, k, v) == [x \in (DOMAIN m) \cup {k} |-> IF x = k THEN v ELSE m[x]]

Remove(m, k) == [x \in (DOMAIN m) \ {k} |-> m[x]]

Get(m, k, default) == IF k \in DOMAIN m THEN m[k] ELSE default

RECURSIVE SumOver(_, _)
SumOver(m, S) ==
    IF S = {} THEN 0
    ELSE LET k == CHOOSE x \in S : TRUE IN m[k] + SumOver(m, S \ {k})

SumMap(m) == SumOver(m, DOMAIN m)

\* ------------------------------------------------------------------------
\* u128 arithmetic a * b / c, evaluated without leaving the checker's
\* integer range: MulDivRem(a, b, c) = <<q, r>> with a * b = q * c + r and
\* 0 <= r < c, by binary expansion of b.
\* ------------------------------------------------------------------------
RECURSIVE MulDivRem(_, _, _)
MulDivRem(a, b, c) ==
    IF b = 0 THEN <<0, 0>>
    ELSE LET h == MulDivRem(a, b \div 2, c)
             t == 2 * h[2] + (IF b % 2 = 1 THEN a % c ELSE 0)
         IN  <<2 * h[1] + (IF b % 2 = 1 THEN a \div c ELSE 0) + (t \div c), t % c>>

\* floor(a * b / c); the product is taken directly when it is in range
MulDiv(a, b, c) ==
    IF a = 0 \/ b <= 2147483647 \div a
    THEN (a * b) \div c
    ELSE MulDivRem(a, b, c)[1]

\* floor((a * b + x * y) / c)
MulAddDiv(a, b, x, y, c) ==
    IF (a = 0 \/ b <= 1073741823 \div a) /\ (x = 0 \/ y <= 1073741823 \div x)
    THEN (a * b + x * y) \div c
    ELSE LET p == MulDivRem(a, b, c)
             q == MulDivRem(x, y, c)
         IN  p[1] + q[1] + ((p[2] + q[2]) \div c)

RECURSIVE Pow10(_)
Pow10(n) == IF n = 0 THEN 1 ELSE 10 * Pow10(n - 1)

\* ------------------------------------------------------------------------
\* State
\* ------------------------------------------------------------------------
VARIABLES
    owner_id,            \* Contract.owner_id
    state,               \* Contract.state (RunningState)
    leverage_ratio,      \* Contract.leverage_ratio (min, max)
    interest_fee,        \* Contract.interest_fee
    exchange_fee,        \* Contract.exchange_fee
    accounts,            \* Contract.accounts: account id -> Account
    whitelisted_tokens,  \* Contract.whitelisted_tokens
    token_list,          \* Contract.token_list: address -> Asset
    whitelisted_rafts,   \* Contract.whitelisted_rafts
    raft_list,           \* Contract.raft_list: address -> Asset
    collaterals,         \* Contract.collaterals: the append-only log
    user_collaterals,    \* Contract.user_collaterals: user -> index list
    debt_pool,           \* Contract.debt_pool
    account_book,        \* Contract.account_book
    price_oracle,        \* Contract.price_oracle.prices
    promises,            \* cross-contract calls in flight, with their callbacks
    join_count,          \* history: joins performed on a non-empty pool
    swap_count,          \* history: calls of the swap entry points
    last                 \* history: the last call or callback and its outcome

vars == <<owner_id, state, leverage_ratio, interest_fee, exchange_fee, accounts,
          whitelisted_tokens, token_list, whitelisted_rafts, raft_list,
          collaterals, user_collaterals, debt_pool, account_book, price_oracle,
          promises, join_count, swap_count, last>>

config == <<owner_id, state, leverage_ratio, interest_fee, exchange_fee,
            whitelisted_tokens, token_list, whitelisted_rafts, raft_list>>

\* ------------------------------------------------------------------------
\* PriceInfo (oracle.rs)
\* ------------------------------------------------------------------------
\* get_price panics on an asset without a price
has_price(prices, asset) == asset \in DOMAIN prices

get_price(prices, asset) == prices[asset]

\* a feed that keeps the first price an asset was given
feed_price_if_absent(prices, asset, price) == IF asset \in DOMAIN prices THEN prices ELSE Insert(prices, asset, price)

feed_price(prices, asset, price) == Insert(prices, asset, price)

\* ------------------------------------------------------------------------
\* DebtPool (debtpool.rs)
\* ------------------------------------------------------------------------
WrappedBalance(amount, is_positive) ==
    [amount |-> amount, is_positive |-> is_positive]

DebtPool_new ==
    [raft_amounts |-> EmptyMap, user_raft_amounts |-> EmptyMap, debt_ratios |-> EmptyMap]

\* the stored value is looked up and dropped; the zero balance is returned
DebtPool_query_raft_amount(dp, raft_id) == WrappedBalance(0, TRUE)

DebtPool_insert_raft_amount(dp, raft_id, wbalance) ==
    [dp EXCEPT !.raft_amounts = Insert(@, raft_id, wbalance)]

DebtPool_query_user_raft_amount(dp, user, raft_id) ==
    Get(dp.user_raft_amounts, <<user, raft_id>>, 0)

\* the (raft, amount) rows of the user over the tracked rafts, zero rows skipped
DebtPool_query_user_raft_amounts(dp, user) ==
    LET held == {r \in DOMAIN dp.raft_amounts :
                    DebtPool_query_user_raft_amount(dp, user, r) # 0}
    IN  [r \in held |-> DebtPool_query_user_raft_amount(dp, user, r)]

DebtPool_insert_user_raft_amount(dp, user, raft_id, amount) ==
    [dp EXCEPT !.user_raft_amounts = Insert(@, <<user, raft_id>>, amount)]

DebtPool_remove_user_raft_amount(dp, user, raft_id) ==
    [dp EXCEPT !.user_raft_amounts = Remove(@, <<user, raft_id>>)]

DebtPool_calc_raft_value(prices, raft_id, amount) == get_price(prices, raft_id) * amount

DebtPool_query_debt_ratio(dp, user) == Get(dp.debt_ratios, user, 0)

DebtPool_insert_debt_ratio(dp, user, debt_ratio) ==
    [dp EXCEPT !.debt_ratios = Insert(@, user, debt_ratio)]

DebtPool_remove_debt_ratio(dp, user) ==
    [dp EXCEPT !.debt_ratios = Remove(@, user)]

\* sum over the tracked rafts of price * magnitude (the sign is not read)
DebtPool_calc_raft_total_value(dp, prices) ==
    SumMap([r \in DOMAIN dp.raft_amounts |->
                DebtPool_calc_raft_value(prices, r, dp.raft_amounts[r].amount)])

DebtPool_calc_user_raft_total_value(dp, prices, user) ==
    SumMap([r \in DOMAIN dp.raft_amounts |->
                IF DebtPool_query_user_raft_amount(dp, user, r) # 0
                THEN DebtPool_calc_raft_value(prices, r,
                         DebtPool_query_user_raft_amount(dp, user, r))
                ELSE 0])

\* the valuation scans panic when a tracked raft has no price
DebtPool_prices_known(dp, prices) ==
    \A r \in DOMAIN dp.raft_amounts : has_price(prices, r)

\* calc_debt_ratio without the dilution of the other users' ratios
DebtPool_calc_debt_ratio_undiluted(dp, old_total_value, new_total_value, sender_id) ==
    IF new_total_value = 0 THEN dp
    ELSE [dp EXCEPT !.debt_ratios =
             Insert(@, sender_id,
                    MulAddDiv(old_total_value, Get(dp.debt_ratios, sender_id, 0),
                              new_total_value - old_total_value, RATIO_DIVISOR,
                              new_total_value))]

\* calc_debt_ratio with the joiner's previous ratio dropped
DebtPool_calc_debt_ratio_fresh(dp, old_total_value, new_total_value, sender_id) ==
    IF new_total_value = 0 THEN dp
    ELSE [dp EXCEPT !.debt_ratios =
             Insert([u \in DOMAIN dp.debt_ratios |->
                        MulDiv(old_total_value, dp.debt_ratios[u], new_total_value)],
                    sender_id,
                    MulDiv(new_total_value - old_total_value, RATIO_DIVISOR,
                           new_total_value))]

\* calc_debt_ratio that records a zero ratio for the sender when the new total
\* value is zero
DebtPool_calc_debt_ratio_zeroing(dp, old_total_value, new_total_value, sender_id) == [dp EXCEPT !.debt_ratios = Insert(@, sender_id, 0)]

DebtPool_calc_debt_ratio(dp, old_total_value, new_total_value, sender_id) ==
    IF new_total_value = 0 THEN dp
    ELSE LET rescaled ==
                 [u \in DOMAIN dp.debt_ratios |->
                     IF u # sender_id
                     THEN MulDiv(old_total_value, dp.debt_ratios[u], new_total_value)
                     ELSE MulAddDiv(old_total_value, dp.debt_ratios[u],
                                    new_total_value - old_total_value, RATIO_DIVISOR,
                                    new_total_value)]
         IN  IF sender_id \in DOMAIN dp.debt_ratios
             THEN [dp EXCEPT !.debt_ratios = rescaled]
             ELSE [dp EXCEPT !.debt_ratios =
                      Insert(rescaled, sender_id,
                             MulDiv(new_total_value - old_total_value, RATIO_DIVISOR,
                                    new_total_value))]

DebtPool_calc_all_debt_ratio(dp, old_total_value, new_total_value) ==
    IF new_total_value = 0 THEN dp
    ELSE [dp EXCEPT !.debt_ratios =
             [u \in DOMAIN dp.debt_ratios |->
                 MulDiv(old_total_value, dp.debt_ratios[u], new_total_value)]]

DebtPool_calc_add_raft_amount(dp, raft_id, raft_amount, amount) ==
    IF raft_amount.is_positive
    THEN DebtPool_insert_raft_amount(dp, raft_id,
             WrappedBalance(raft_amount.amount + amount, TRUE))
    ELSE IF raft_amount.amount >= amount
         THEN DebtPool_insert_raft_amount(dp, raft_id,
                  WrappedBalance(raft_amount.amount - amount, FALSE))
         ELSE DebtPool_insert_raft_amount(dp, raft_id,
                  WrappedBalance(amount - raft_amount.amount, TRUE))

\* calc_sub_raft_amount stopping at zero instead of changing the sign
DebtPool_calc_sub_raft_amount_saturating(dp, raft_id, raft_amount, amount) ==
    IF raft_amount.is_positive
    THEN IF raft_amount.amount >= amount
         THEN DebtPool_insert_raft_amount(dp, raft_id,
                  WrappedBalance(raft_amount.amount - amount, TRUE))
         ELSE DebtPool_insert_raft_amount(dp, raft_id, WrappedBalance(0, TRUE))
    ELSE DebtPool_insert_raft_amount(dp, raft_id,
             WrappedBalance(raft_amount.amount + amount, FALSE))

DebtPool_calc_sub_raft_amount(dp, raft_id, raft_amount, amount) ==
    IF raft_amount.is_positive
    THEN IF raft_amount.amount >= amount
         THEN DebtPool_insert_raft_amount(dp, raft_id,
                  WrappedBalance(raft_amount.amount - amount, TRUE))
         ELSE DebtPool_insert_raft_amount(dp, raft_id,
                  WrappedBalance(amount - raft_amount.amount, FALSE))
    ELSE DebtPool_insert_raft_amount(dp, raft_id,
             WrappedBalance(raft_amount.amount + amount, FALSE))

\* join panics when a price it reads is missing
DebtPool_join_panics(dp, prices, raft_id) ==
    /\ DOMAIN dp.raft_amounts # {}
    /\ ~(DebtPool_prices_known(dp, prices) /\ has_price(prices, raft_id))

\* the genesis branch of join without the debt-ratio entry
DebtPool_join_genesis_no_ratio(dp, user, raft_id, raft_amount) ==
    DebtPool_insert_user_raft_amount(
        DebtPool_insert_raft_amount(dp, raft_id, WrappedBalance(raft_amount, TRUE)),
        user, raft_id, raft_amount)

DebtPool_join_genesis(dp, user, raft_id, raft_amount) ==
    DebtPool_insert_debt_ratio(
        DebtPool_insert_user_raft_amount(
            DebtPool_insert_raft_amount(dp, raft_id, WrappedBalance(raft_amount, TRUE)),
            user, raft_id, raft_amount),
        user, RATIO_DIVISOR)

DebtPool_join(dp, prices, user, raft_id, raft_amount) ==
    IF DOMAIN dp.raft_amounts = {}
    THEN DebtPool_join_genesis(dp, user, raft_id, raft_amount)
    ELSE LET old_total_value == DebtPool_calc_raft_total_value(dp, prices)
             old_raft_amount == DebtPool_query_raft_amount(dp, raft_id)
             dp1 == DebtPool_calc_add_raft_amount(dp, raft_id, old_raft_amount, raft_amount)
             old_user_raft_amount == DebtPool_query_user_raft_amount(dp1, user, raft_id)
             dp2 == DebtPool_insert_user_raft_amount(dp1, user, raft_id,
                        old_user_raft_amount + raft_amount)
             join_raft_value == DebtPool_calc_raft_value(prices, raft_id, raft_amount)
             new_total_value == old_total_value + join_raft_value
         IN  DebtPool_calc_debt_ratio(dp2, old_total_value, new_total_value, user)

\* ------------------------------------------------------------------------
\* AccountBook (accountbook.rs)
\* ------------------------------------------------------------------------
AccountBook_new == [raft_amounts |-> EmptyMap, user_raft_amounts |-> EmptyMap]

AccountBook_query_raft_amount(ab, raft_id) == Get(ab.raft_amounts, raft_id, 0)

AccountBook_insert_raft_amount(ab, raft_id, amount) ==
    [ab EXCEPT !.raft_amounts = Insert(@, raft_id, amount)]

AccountBook_query_user_raft_amount(ab, user, raft_id) ==
    Get(ab.user_raft_amounts, <<user, raft_id>>, 0)

AccountBook_insert_user_raft_amount(ab, user, raft_id, amount) ==
    [ab EXCEPT !.user_raft_amounts = Insert(@, <<user, raft_id>>, amount)]

AccountBook_mint(ab, user, raft_id, raft_amount) ==
    LET ab1 == AccountBook_insert_raft_amount(ab, raft_id,
                   AccountBook_query_raft_amount(ab, raft_id) + raft_amount)
    IN  AccountBook_insert_user_raft_amount(ab1, user, raft_id,
            AccountBook_query_user_raft_amount(ab1, user, raft_id) + raft_amount)

\* ------------------------------------------------------------------------
\* Account (account.rs)
\* ------------------------------------------------------------------------
\* env::storage_byte_cost(), in the unit in which near_amount is counted
storage_byte_cost == 1

Account_new == [near_amount |-> 0, tokens |-> EmptyMap]

Account_deposit(account, token, amount) ==
    [account EXCEPT !.tokens = Insert(@, token, Get(account.tokens, token, 0) + amount)]

\* withdraw panics on a missing row or a row smaller than the amount
Account_withdraw_panics(account, token, amount) ==
    \/ token \notin DOMAIN account.tokens
    \/ account.tokens[token] < amount

Account_withdraw(account, token, amount) ==
    [account EXCEPT !.tokens = Insert(@, token, account.tokens[token] - amount)]

Account_storage_usage(account) ==
    (INIT_ACCOUNT_STORAGE
       + Cardinality(DOMAIN account.tokens)
           * (KEY_PREFIX_ACC + ACC_ID_AS_KEY_STORAGE + U128_STORAGE))
    * storage_byte_cost

\* assert_storage_usage holds
Account_storage_ok(account) == Account_storage_usage(account) <= account.near_amount

internal_unwrap_or_default_account(accs, account_id) == Get(accs, account_id, Account_new)

\* internal_register_account: [ok, accounts]
internal_register_account(accs, account_id, amount) ==
    LET account == [internal_unwrap_or_default_account(accs, account_id)
                       EXCEPT !.near_amount = @ + amount]
    IN  IF Account_storage_ok(account)
        THEN [ok |-> TRUE, accounts |-> Insert(accs, account_id, account)]
        ELSE [ok |-> FALSE, accounts |-> accs]

\* internal_deposit: [ok, accounts]
internal_deposit(accs, wl_tokens, sender_id, token_id, amount) ==
    IF sender_id \notin DOMAIN accs THEN [ok |-> FALSE, accounts |-> accs]
    ELSE LET account == accs[sender_id]
             credited == Account_deposit(account, token_id, amount)
         IN  IF /\ (token_id \in wl_tokens \/ token_id \in DOMAIN account.tokens)
                /\ Account_storage_ok(credited)
             THEN [ok |-> TRUE, accounts |-> Insert(accs, sender_id, credited)]
             ELSE [ok |-> FALSE, accounts |-> accs]

\* the promise chain built by internal_send_tokens: ft_transfer, then
\* exchange_callback_post_withdraw
internal_send_tokens(sender_id, token_id, amount) ==
    [kind |-> "ft_transfer", sender_id |-> sender_id, token |-> token_id,
     token_amount |-> amount, raft |-> "-", raft_amount |-> 0, join_debtpool |-> FALSE]

\* Account::deposit_with_storage_check: [ok, account]
Account_deposit_with_storage_check(account, token, amount) ==
    IF token \in DOMAIN account.tokens
    THEN [ok |-> TRUE,
          account |-> [account EXCEPT !.tokens = Insert(@, token, account.tokens[token] + amount)]]
    ELSE LET inserted == [account EXCEPT !.tokens = Insert(@, token, amount)]
         IN  IF Account_storage_usage(inserted) <= account.near_amount
             THEN [ok |-> TRUE, account |-> inserted]
             ELSE [ok |-> FALSE, account |-> account]

\* Account::register for one token id
Account_register(account, token) ==
    IF token \in DOMAIN account.tokens THEN account
    ELSE [account EXCEPT !.tokens = Insert(@, token, 0)]

\* Account::unregister panics on a row whose balance is not 0
Account_unregister_panics(account, token) == Get(account.tokens, token, 0) # 0

Account_unregister(account, token) == [account EXCEPT !.tokens = Remove(@, token)]

\* internal_save_account: [ok, accounts]
internal_save_account(accs, account_id, account) ==
    IF Account_storage_ok(account)
    THEN [ok |-> TRUE, accounts |-> Insert(accs, account_id, account)]
    ELSE [ok |-> FALSE, accounts |-> accs]

\* internal_lostfound reporting success without crediting the owner
internal_lostfound_dropped(accs, wl_tokens, owner, token_id, amount) ==
    [ok |-> token_id \in wl_tokens, accounts |-> accs]

\* internal_lostfound without the whitelist check
internal_lostfound_any_token(accs, wl_tokens, owner, token_id, amount) ==
    [ok |-> TRUE,
     accounts |-> Insert(accs, owner,
                         Account_deposit(internal_unwrap_or_default_account(accs, owner),
                                         token_id, amount))]

\* internal_lostfound: [ok, accounts]
internal_lostfound(accs, wl_tokens, owner, token_id, amount) ==
    IF token_id \in wl_tokens
    THEN [ok |-> TRUE,
          accounts |-> Insert(accs, owner,
                              Account_deposit(internal_unwrap_or_default_account(accs, owner),
                                              token_id, amount))]
    ELSE [ok |-> FALSE, accounts |-> accs]

\* the compensation for a failed transfer credited to the owner whatever the
\* recipient's account can hold
compensate_to_owner(accs, wl_tokens, owner, token_id, sender_id, amount) ==
    internal_lostfound(accs, wl_tokens, owner, token_id, amount)

\* exchange_callback_post_withdraw, the PromiseResult::Failed arm: [ok, accounts]
compensate(accs, wl_tokens, owner, token_id, sender_id, amount) ==
    IF sender_id \in DOMAIN accs
    THEN LET r == Account_deposit_with_storage_check(accs[sender_id], token_id, amount)
         IN  IF r.ok
             THEN [ok |-> TRUE, accounts |-> Insert(accs, sender_id, r.account)]
             ELSE internal_lostfound(accs, wl_tokens, owner, token_id, amount)
    ELSE internal_lostfound(accs, wl_tokens, owner, token_id, amount)

\* exchange_callback_post_withdraw compensating whatever the promise result
exchange_callback_post_withdraw_always(accs, wl_tokens, owner, token_id, sender_id, amount, result) ==
    compensate(accs, wl_tokens, owner, token_id, sender_id, amount)

\* Contract::exchange_callback_post_withdraw: [ok, accounts]
exchange_callback_post_withdraw(accs, wl_tokens, owner, token_id, sender_id, amount, result) ==
    IF result = "Successful"
    THEN [ok |-> TRUE, accounts |-> accs]
    ELSE compensate(accs, wl_tokens, owner, token_id, sender_id, amount)

\* ------------------------------------------------------------------------
\* Contract (lib.rs)
\* ------------------------------------------------------------------------
Asset(symbol, decimals, address, collateral_ratio) ==
    [symbol |-> symbol, decimals |-> decimals, address |-> address,
     collateral_ratio |-> collateral_ratio, state |-> 0]

\* a Collateral record created in state 1
Collateral_state_1(issuer, token, token_amount, raft, raft_amount, join_debtpool) ==
    [issuer |-> issuer, token |-> token, token_amount |-> token_amount,
     raft |-> raft, raft_amount |-> raft_amount, join_debtpool |-> join_debtpool,
     state |-> 1]

Collateral(issuer, token, token_amount, raft, raft_amount, join_debtpool) ==
    [issuer |-> issuer, token |-> token, token_amount |-> token_amount,
     raft |-> raft, raft_amount |-> raft_amount, join_debtpool |-> join_debtpool,
     state |-> 0]

\* the record kept in `last` for a call or callback
Call(op, sender_id, token, token_amount, raft, raft_amount, join_debtpool, ok) ==
    [op |-> op, sender_id |-> sender_id, token |-> token, token_amount |-> token_amount,
     raft |-> raft, raft_amount |-> raft_amount, join_debtpool |-> join_debtpool,
     ok |-> ok, promise_result |-> "-"]

\* the outcomes of the promise a callback is attached to
PromiseResults == {"Successful", "Failed"}

\* a gate that lets every call through
assert_contract_running_open == TRUE

assert_contract_running == state = "Running"

is_in_whitelisted_tokens(token) == token \in whitelisted_tokens

is_in_whitelisted_rafts(raft) == raft \in whitelisted_rafts

\* the addresses of the registered rafts whose symbol is rUSD
query_rusd == {a \in DOMAIN raft_list : raft_list[a].symbol = "rUSD"}

\* mint: the checks before the promise chain is built
mint_ok(token, token_amount, raft, raft_amount) ==
    /\ assert_contract_running
    /\ is_in_whitelisted_tokens(token)
    /\ is_in_whitelisted_rafts(raft)
    /\ token_amount > 0
    /\ raft_amount > 0

\* the promise chain built by mint: ft_transfer_call, then mint_callback
mint_promise(sender_id, token, token_amount, raft, raft_amount, join_debtpool) ==
    [kind |-> "ft_transfer_call", sender_id |-> sender_id, token |-> token,
     token_amount |-> token_amount, raft |-> raft, raft_amount |-> raft_amount,
     join_debtpool |-> join_debtpool]

\* pool path of mint_callback: the value of leverage_ratio
mint_leverage_ratio(token, token_amount, raft, raft_amount) ==
    (get_price(price_oracle, raft) * raft_amount * Pow10(token_list[token].decimals))
      \div (get_price(price_oracle, token) * token_amount * Pow10(raft_list[raft].decimals))

\* individual path of mint_callback: the value of collateral_ratio
mint_collateral_ratio(token, token_amount, raft, raft_amount) ==
    (get_price(price_oracle, token) * token_amount * Pow10(token_list[raft].decimals) * 100)
      \div (get_price(price_oracle, raft) * raft_amount * Pow10(token_list[token].decimals))

\* mint_callback with the pool path's upper bound on leverage_ratio left out
mint_callback_ok_no_max(token, token_amount, raft, raft_amount, join_debtpool) ==
    IF join_debtpool
    THEN /\ token \in DOMAIN token_list
         /\ raft \in DOMAIN raft_list
         /\ has_price(price_oracle, raft)
         /\ has_price(price_oracle, token)
         /\ get_price(price_oracle, token) * token_amount # 0
         /\ mint_leverage_ratio(token, token_amount, raft, raft_amount) >= leverage_ratio[1]
         /\ ~DebtPool_join_panics(debt_pool, price_oracle, raft)
    ELSE /\ token \in DOMAIN token_list
         /\ raft \in DOMAIN token_list
         /\ has_price(price_oracle, token)
         /\ has_price(price_oracle, raft)
         /\ get_price(price_oracle, raft) * raft_amount # 0
         /\ mint_collateral_ratio(token, token_amount, raft, raft_amount)
               >= token_list[token].collateral_ratio

\* mint_callback runs to its end (no unwrap, price lookup, division or assert fails)
mint_callback_ok(token, token_amount, raft, raft_amount, join_debtpool) ==
    IF join_debtpool
    THEN /\ token \in DOMAIN token_list
         /\ raft \in DOMAIN raft_list
         /\ has_price(price_oracle, raft)
         /\ has_price(price_oracle, token)
         /\ get_price(price_oracle, token) * token_amount # 0
         /\ mint_leverage_ratio(token, token_amount, raft, raft_amount) >= leverage_ratio[1]
         /\ mint_leverage_ratio(token, token_amount, raft, raft_amount) <= leverage_ratio[2]
         /\ ~DebtPool_join_panics(debt_pool, price_oracle, raft)
    ELSE /\ token \in DOMAIN token_list
         /\ raft \in DOMAIN token_list
         /\ has_price(price_oracle, token)
         /\ has_price(price_oracle, raft)
         /\ get_price(price_oracle, raft) * raft_amount # 0
         /\ mint_collateral_ratio(token, token_amount, raft, raft_amount)
               >= token_list[token].collateral_ratio

\* mint_callback: [ok, dp, ab, collaterals]
mint_callback(sender_id, token, token_amount, raft, raft_amount, join_debtpool) ==
    IF ~mint_callback_ok(token, token_amount, raft, raft_amount, join_debtpool)
    THEN [ok |-> FALSE, dp |-> debt_pool, ab |-> account_book, collaterals |-> collaterals]
    ELSE [ok |-> TRUE,
          dp |-> IF join_debtpool
                 THEN DebtPool_join(debt_pool, price_oracle, sender_id, raft, raft_amount)
                 ELSE debt_pool,
          ab |-> IF join_debtpool
                 THEN account_book
                 ELSE AccountBook_mint(account_book, sender_id, raft, raft_amount),
          collaterals |-> Append(collaterals,
                              Collateral(sender_id, token, token_amount, raft, raft_amount,
                                         join_debtpool))]

\* redeem_in_debtpool, settlement of the caller's debt: [ok, dp, ab].
\* A u128 subtraction that would go below zero is taken to panic.
redeem_settle(dp, ab, sender_id, rusd, raft_total_value) ==
    LET user_debt_ratio == DebtPool_query_debt_ratio(dp, sender_id)
        user_debt == MulDiv(raft_total_value, user_debt_ratio, RATIO_DIVISOR)
        user_rusd_amount_in_debtpool == DebtPool_query_user_raft_amount(dp, sender_id, rusd)
        user_debt_amount == user_debt \div PRICE_PRECISION
        user_rusd_amount_in_accountbook == AccountBook_query_user_raft_amount(ab, sender_id, rusd)
        remaining_debt_amount == user_debt_amount - user_rusd_amount_in_debtpool
        rusd_amount_in_accountbook == AccountBook_query_raft_amount(ab, rusd)
    IN  IF user_debt = 0 THEN [ok |-> TRUE, dp |-> dp, ab |-> ab]
        ELSE IF user_debt <= user_rusd_amount_in_debtpool * PRICE_PRECISION
        THEN LET dp1 == DebtPool_insert_user_raft_amount(dp, sender_id, rusd,
                            user_rusd_amount_in_debtpool - user_debt_amount)
                 dp2 == DebtPool_calc_sub_raft_amount(dp1, rusd,
                            DebtPool_query_raft_amount(dp1, rusd), user_debt_amount)
             IN  [ok |-> TRUE, dp |-> DebtPool_remove_debt_ratio(dp2, sender_id), ab |-> ab]
        ELSE IF \/ user_debt_amount > user_rusd_amount_in_debtpool + user_rusd_amount_in_accountbook
                \/ rusd_amount_in_accountbook < remaining_debt_amount
        THEN [ok |-> FALSE, dp |-> dp, ab |-> ab]
        ELSE LET dp1 == DebtPool_remove_user_raft_amount(dp, sender_id, rusd)
                 dp2 == DebtPool_calc_sub_raft_amount(dp1, rusd,
                            DebtPool_query_raft_amount(dp1, rusd),
                            user_rusd_amount_in_debtpool)
                 dp3 == DebtPool_remove_debt_ratio(dp2, sender_id)
                 ab1 == AccountBook_insert_user_raft_amount(ab, sender_id, rusd,
                            user_rusd_amount_in_accountbook - remaining_debt_amount)
                 ab2 == AccountBook_insert_raft_amount(ab1, rusd,
                            rusd_amount_in_accountbook - remaining_debt_amount)
             IN  [ok |-> TRUE, dp |-> dp3, ab |-> ab2]

\* redeem_in_debtpool, the loop moving the caller's pooled rows (rafts in S)
\* into the account book: [dp, ab]
RECURSIVE redeem_migrate(_, _, _, _, _)
redeem_migrate(dp, ab, sender_id, rows, S) ==
    IF S = {} THEN [dp |-> dp, ab |-> ab]
    ELSE LET raft == CHOOSE r \in S : TRUE
             amount == rows[raft]
             dp1 == DebtPool_calc_sub_raft_amount(dp, raft,
                        DebtPool_query_raft_amount(dp, raft), amount)
             dp2 == DebtPool_remove_user_raft_amount(dp1, sender_id, raft)
             ab1 == AccountBook_insert_raft_amount(ab, raft,
                        AccountBook_query_raft_amount(ab, raft) + amount)
             ab2 == AccountBook_insert_user_raft_amount(ab1, sender_id, raft,
                        AccountBook_query_user_raft_amount(ab1, sender_id, raft) + amount)
         IN  redeem_migrate(dp2, ab2, sender_id, rows, S \ {raft})

\* Collateral ids count from 0
query_collateral(collateral_id) ==
    IF collateral_id + 1 \in DOMAIN collaterals
    THEN {collaterals[collateral_id + 1]} ELSE {}

\* redeem_in_debtpool, the loop returning the collateral of the records
\* ids[i..]: [ok, accounts, promises]
RECURSIVE redeem_release(_, _, _, _, _)
redeem_release(accs, proms, sender_id, ids, i) ==
    IF i > Len(ids) THEN [ok |-> TRUE, accounts |-> accs, promises |-> proms]
    ELSE IF query_collateral(ids[i]) = {}
    THEN redeem_release(accs, proms, sender_id, ids, i + 1)
    ELSE LET collateral == CHOOSE c \in query_collateral(ids[i]) : TRUE
         IN  IF \/ sender_id \notin DOMAIN accs
                \/ Account_withdraw_panics(accs[sender_id], collateral.token,
                                           collateral.token_amount)
                \/ ~Account_storage_ok(accs[sender_id])
             THEN [ok |-> FALSE, accounts |-> accs, promises |-> proms]
             ELSE redeem_release(
                      Insert(accs, sender_id,
                             Account_withdraw(accs[sender_id], collateral.token,
                                              collateral.token_amount)),
                      Append(proms, internal_send_tokens(sender_id, collateral.token,
                                                         collateral.token_amount)),
                      sender_id, ids, i + 1)

\* redeem_in_debtpool keeping, when it fails, the removal of the caller's
\* pooled rUSD row and debt ratio
redeem_in_debtpool_unreverted(sender_id) ==
    [ok |-> FALSE,
     dp |-> DebtPool_remove_debt_ratio(
                DebtPool_remove_user_raft_amount(debt_pool, sender_id, RUSD), sender_id),
     ab |-> account_book, accounts |-> accounts, promises |-> promises]

\* redeem_in_debtpool: [ok, dp, ab, accounts, promises]
redeem_in_debtpool(sender_id) ==
    LET failed == [ok |-> FALSE, dp |-> debt_pool, ab |-> account_book,
                   accounts |-> accounts, promises |-> promises]
    IN  IF \/ ~assert_contract_running
           \/ query_rusd = {}
           \/ sender_id \notin DOMAIN user_collaterals
           \/ ~DebtPool_prices_known(debt_pool, price_oracle)
        THEN failed
        ELSE LET rusd == CHOOSE a \in query_rusd : TRUE
                 raft_total_value == DebtPool_calc_raft_total_value(debt_pool, price_oracle)
                 settled == redeem_settle(debt_pool, account_book, sender_id, rusd,
                                          raft_total_value)
                 rows == DebtPool_query_user_raft_amounts(settled.dp, sender_id)
                 moved == redeem_migrate(settled.dp, settled.ab, sender_id, rows, DOMAIN rows)
                 new_raft_total_value == DebtPool_calc_raft_total_value(moved.dp, price_oracle)
                 rescaled == DebtPool_calc_all_debt_ratio(moved.dp, raft_total_value,
                                                          new_raft_total_value)
                 released == redeem_release(accounts, promises, sender_id,
                                            user_collaterals[sender_id], 1)
             IN  IF ~settled.ok \/ ~released.ok THEN failed
                 ELSE [ok |-> TRUE, dp |-> rescaled, ab |-> moved.ab,
                       accounts |-> released.accounts, promises |-> released.promises]

\* redeem_in_accountbook: the interest fee charged on a record's raft_amount
interest_fee_amount(raft_amount) == (raft_amount * interest_fee) \div FEE_DIVISOR

\* redeem_in_accountbook: the asserts on the record and on the AccountBook
redeem_in_accountbook_ok(sender_id, collateral_id) ==
    /\ assert_contract_running
    /\ query_collateral(collateral_id) # {}
    /\ LET collateral == CHOOSE c \in query_collateral(collateral_id) : TRUE
           due == collateral.raft_amount + interest_fee_amount(collateral.raft_amount)
       IN  /\ collateral.issuer = sender_id
           /\ collateral.join_debtpool = FALSE
           /\ collateral.state = 0
           /\ AccountBook_query_raft_amount(account_book, collateral.raft) > due
           /\ AccountBook_query_user_raft_amount(account_book, sender_id, collateral.raft) > due
           /\ sender_id \in DOMAIN accounts
           /\ ~Account_withdraw_panics(accounts[sender_id], collateral.token,
                                       collateral.token_amount)
           /\ Account_storage_ok(accounts[sender_id])

\* Contract::redeem_in_accountbook: [ok, ab, accounts, promises]
redeem_in_accountbook(sender_id, collateral_id) ==
    IF ~redeem_in_accountbook_ok(sender_id, collateral_id)
    THEN [ok |-> FALSE, ab |-> account_book, accounts |-> accounts, promises |-> promises]
    ELSE LET collateral == CHOOSE c \in query_collateral(collateral_id) : TRUE
             raft_amount == AccountBook_query_raft_amount(account_book, collateral.raft)
             user_raft_amount ==
                 AccountBook_query_user_raft_amount(account_book, sender_id, collateral.raft)
             fee == interest_fee_amount(collateral.raft_amount)
             owner_raft_amount ==
                 AccountBook_query_user_raft_amount(account_book, owner_id, collateral.raft)
             ab1 == AccountBook_insert_user_raft_amount(account_book, owner_id,
                        collateral.raft, owner_raft_amount + fee)
             ab2 == AccountBook_insert_user_raft_amount(ab1, sender_id, collateral.raft,
                        user_raft_amount - collateral.raft_amount - fee)
             ab3 == AccountBook_insert_raft_amount(ab2, collateral.raft,
                        raft_amount - collateral.raft_amount)
         IN  [ok |-> TRUE, ab |-> ab3,
              accounts |-> Insert(accounts, sender_id,
                                  Account_withdraw(accounts[sender_id], collateral.token,
                                                   collateral.token_amount)),
              promises |-> Append(promises,
                                  internal_send_tokens(sender_id, collateral.token,
                                                       collateral.token_amount))]

\* the promise chain built by deposit_in_accountbook (kind "burn") and by
\* withdraw_in_accountbook (kind "mint"): the call on the raft's token
\* contract, then the callback with the two amounts read at call time
account_book_promise(kind, sender_id, raft_id, amount) ==
    [kind |-> kind, sender_id |-> sender_id, token |-> "-", token_amount |-> amount,
     raft |-> raft_id,
     raft_amount |-> AccountBook_query_raft_amount(account_book, raft_id),
     join_debtpool |-> FALSE,
     user_raft_amount |-> AccountBook_query_user_raft_amount(account_book, sender_id, raft_id)]

\* deposit_in_accountbook: the checks before the promise chain is built
deposit_in_accountbook_ok == assert_contract_running

\* withdraw_in_accountbook without the check of the caller's own row
withdraw_in_accountbook_ok_any_row(sender_id, raft_id, amount) ==
    /\ assert_contract_running
    /\ amount > 0
    /\ AccountBook_query_raft_amount(account_book, raft_id) >= amount

\* withdraw_in_accountbook: the checks before the promise chain is built
withdraw_in_accountbook_ok(sender_id, raft_id, amount) ==
    /\ assert_contract_running
    /\ amount > 0
    /\ AccountBook_query_raft_amount(account_book, raft_id) >= amount
    /\ AccountBook_query_user_raft_amount(account_book, sender_id, raft_id) >= amount

\* Contract::account_book_callback_deposit
account_book_callback_deposit(ab, sender_id, raft_id, amount, raft_amount, user_raft_amount) ==
    AccountBook_insert_user_raft_amount(
        AccountBook_insert_raft_amount(ab, raft_id, raft_amount + amount),
        sender_id, raft_id, user_raft_amount + amount)

\* Contract::account_book_callback_withdraw
account_book_callback_withdraw(ab, sender_id, raft_id, amount, raft_amount, user_raft_amount) ==
    AccountBook_insert_user_raft_amount(
        AccountBook_insert_raft_amount(ab, raft_id, raft_amount - amount),
        sender_id, raft_id, user_raft_amount - amount)

\* swap_in_debtpool / swap_in_accountbook: the fee charged on swap_amount
exchange_fee_amount(swap_amount) == (swap_amount * exchange_fee) \div FEE_DIVISOR

\* swap_in_debtpool without the check of the caller's own contribution
swap_in_debtpool_ok_any_row(sender_id, old_raft, new_raft, swap_amount) ==
    /\ assert_contract_running
    /\ is_in_whitelisted_rafts(old_raft)
    /\ is_in_whitelisted_rafts(new_raft)
    /\ swap_amount > 0
    /\ has_price(price_oracle, old_raft)
    /\ has_price(price_oracle, new_raft)
    /\ get_price(price_oracle, new_raft) # 0

\* swap_in_debtpool runs to its end (no assert, price lookup or division fails)
swap_in_debtpool_ok(sender_id, old_raft, new_raft, swap_amount) ==
    /\ assert_contract_running
    /\ is_in_whitelisted_rafts(old_raft)
    /\ is_in_whitelisted_rafts(new_raft)
    /\ swap_amount > 0
    /\ DebtPool_query_user_raft_amount(debt_pool, sender_id, old_raft) >= swap_amount
    /\ has_price(price_oracle, old_raft)
    /\ has_price(price_oracle, new_raft)
    /\ get_price(price_oracle, new_raft) # 0

\* the ledger updates of swap_in_debtpool, in the order of the code
swap_in_debtpool_ledger(dp, sender_id, old_raft, new_raft, swap_amount) ==
    LET old_raft_amount == DebtPool_query_raft_amount(dp, old_raft)
        old_user_raft_amount == DebtPool_query_user_raft_amount(dp, sender_id, old_raft)
        fee == exchange_fee_amount(swap_amount)
        owner_raft_amount == DebtPool_query_user_raft_amount(dp, owner_id, old_raft)
        dp1 == DebtPool_insert_user_raft_amount(dp, owner_id, old_raft,
                   owner_raft_amount + fee)
        dp2 == DebtPool_calc_sub_raft_amount(dp1, old_raft, old_raft_amount,
                   swap_amount - fee)
        dp3 == DebtPool_insert_user_raft_amount(dp2, sender_id, old_raft,
                   old_user_raft_amount - swap_amount)
        new_swap_amount == MulDiv(get_price(price_oracle, old_raft), swap_amount - fee,
                                  get_price(price_oracle, new_raft))
        new_raft_amount == DebtPool_query_raft_amount(dp3, new_raft)
        dp4 == DebtPool_calc_add_raft_amount(dp3, new_raft, new_raft_amount, new_swap_amount)
        new_user_raft_amount == DebtPool_query_user_raft_amount(dp4, sender_id, new_raft)
    IN  DebtPool_insert_user_raft_amount(dp4, sender_id, new_raft,
            new_user_raft_amount + new_swap_amount)

\* swap_in_debtpool followed by a recalculation of the debt ratios
swap_in_debtpool_rescaling(sender_id, old_raft, new_raft, swap_amount) ==
    IF ~swap_in_debtpool_ok(sender_id, old_raft, new_raft, swap_amount)
    THEN [ok |-> FALSE, dp |-> debt_pool]
    ELSE LET dp == swap_in_debtpool_ledger(debt_pool, sender_id, old_raft, new_raft,
                                           swap_amount)
         IN  [ok |-> TRUE,
              dp |-> DebtPool_calc_all_debt_ratio(dp,
                         DebtPool_calc_raft_total_value(debt_pool, price_oracle),
                         DebtPool_calc_raft_total_value(dp, price_oracle))]

\* swap_in_debtpool: [ok, dp]
swap_in_debtpool(sender_id, old_raft, new_raft, swap_amount) ==
    IF ~swap_in_debtpool_ok(sender_id, old_raft, new_raft, swap_amount)
    THEN [ok |-> FALSE, dp |-> debt_pool]
    ELSE [ok |-> TRUE,
          dp |-> swap_in_debtpool_ledger(debt_pool, sender_id, old_raft, new_raft,
                                         swap_amount)]

\* swap_in_accountbook runs to its end
swap_in_accountbook_ok(sender_id, old_raft, new_raft, swap_amount) ==
    /\ assert_contract_running
    /\ is_in_whitelisted_rafts(old_raft)
    /\ is_in_whitelisted_rafts(new_raft)
    /\ swap_amount > 0
    /\ AccountBook_query_raft_amount(account_book, old_raft) >= swap_amount
    /\ AccountBook_query_user_raft_amount(account_book, sender_id, old_raft) >= swap_amount
    /\ has_price(price_oracle, old_raft)
    /\ has_price(price_oracle, new_raft)
    /\ get_price(price_oracle, new_raft) # 0

\* swap_in_accountbook: [ok, ab, dp]
swap_in_accountbook(sender_id, old_raft, new_raft, swap_amount) ==
    IF ~swap_in_accountbook_ok(sender_id, old_raft, new_raft, swap_amount)
    THEN [ok |-> FALSE, ab |-> account_book, dp |-> debt_pool]
    ELSE LET old_raft_amount == AccountBook_query_raft_amount(account_book, old_raft)
             old_user_raft_amount ==
                 AccountBook_query_user_raft_amount(account_book, sender_id, old_raft)
             fee == exchange_fee_amount(swap_amount)
             owner_raft_amount ==
                 AccountBook_query_user_raft_amount(account_book, owner_id, old_raft)
             ab1 == AccountBook_insert_user_raft_amount(account_book, owner_id, old_raft,
                        owner_raft_amount + fee)
             ab2 == AccountBook_insert_raft_amount(ab1, old_raft,
                        old_raft_amount - swap_amount + fee)
             ab3 == AccountBook_insert_user_raft_amount(ab2, sender_id, old_raft,
                        old_user_raft_amount - swap_amount)
             new_swap_amount == MulDiv(get_price(price_oracle, old_raft), swap_amount - fee,
                                       get_price(price_oracle, new_raft))
             new_raft_amount == AccountBook_query_raft_amount(ab3, new_raft)
             ab4 == AccountBook_insert_raft_amount(ab3, new_raft,
                        new_raft_amount + new_swap_amount)
             new_user_raft_amount ==
                 AccountBook_query_user_raft_amount(ab4, sender_id, new_raft)
             ab5 == AccountBook_insert_user_raft_amount(ab4, sender_id, new_raft,
                        new_user_raft_amount + new_swap_amount)
             dp1 == DebtPool_calc_sub_raft_amount(debt_pool, old_raft,
                        DebtPool_query_raft_amount(debt_pool, old_raft), new_swap_amount)
             dp2 == DebtPool_calc_add_raft_amount(dp1, new_raft,
                        DebtPool_query_raft_amount(dp1, new_raft), new_swap_amount)
         IN  [ok |-> TRUE, ab |-> ab5, dp |-> dp2]

\* owner.rs: assert_owner
assert_owner(sender_id) == sender_id = owner_id

\* ------------------------------------------------------------------------
\* Actions: one per entry point or callback
\* ------------------------------------------------------------------------
RemoveAt(seq, i) == SubSeq(seq, 1, i - 1) \o SubSeq(seq, i + 1, Len(seq))

\* Contract::mint
Mint(sender_id, token, token_amount, raft, raft_amount, join_debtpool) ==
    /\ Len(promises) < MaxPending
    /\ promises' = IF mint_ok(token, token_amount, raft, raft_amount)
                   THEN Append(promises, mint_promise(sender_id, token, token_amount, raft,
                                                      raft_amount, join_debtpool))
                   ELSE promises
    /\ last' = Call("mint", sender_id, token, token_amount, raft, raft_amount, join_debtpool,
                    mint_ok(token, token_amount, raft, raft_amount))
    /\ UNCHANGED <<config, price_oracle, accounts, collaterals, user_collaterals, debt_pool,
                   account_book, join_count, swap_count>>

\* Contract::mint_callback, run when the ft_transfer_call of promises[i] has resolved
\* with promise_result, which the callback does not read
MintCallback(i, promise_result) ==
    /\ i \in DOMAIN promises
    /\ promises[i].kind = "ft_transfer_call"
    /\ LET p == promises[i]
           r == mint_callback(p.sender_id, p.token, p.token_amount, p.raft, p.raft_amount,
                              p.join_debtpool)
       IN  /\ debt_pool' = r.dp
           /\ account_book' = r.ab
           /\ collaterals' = r.collaterals
           /\ join_count' = IF r.ok /\ p.join_debtpool /\ DOMAIN debt_pool.raft_amounts # {}
                            THEN join_count + 1 ELSE join_count
           /\ last' = [Call("mint_callback", p.sender_id, p.token, p.token_amount, p.raft,
                            p.raft_amount, p.join_debtpool, r.ok)
                          EXCEPT !.promise_result = promise_result]
    /\ promises' = RemoveAt(promises, i)
    /\ UNCHANGED <<config, price_oracle, accounts, user_collaterals, swap_count>>

\* Contract::redeem_in_debtpool
RedeemInDebtpool(sender_id) ==
    /\ LET r == redeem_in_debtpool(sender_id)
       IN  /\ debt_pool' = r.dp
           /\ account_book' = r.ab
           /\ accounts' = r.accounts
           /\ promises' = r.promises
           /\ last' = Call("redeem_in_debtpool", sender_id, "-", 0, "-", 0, FALSE, r.ok)
    /\ UNCHANGED <<config, price_oracle, collaterals, user_collaterals, join_count, swap_count>>

\* storage deposit of an account: Contract::internal_register_account
StorageDeposit(account_id, amount) ==
    /\ account_id \notin DOMAIN accounts
    /\ LET r == internal_register_account(accounts, account_id, amount)
       IN  /\ accounts' = r.accounts
           /\ last' = Call("storage_deposit", account_id, "-", amount, "-", 0, FALSE, r.ok)
    /\ UNCHANGED <<config, price_oracle, collaterals, user_collaterals, debt_pool, account_book,
                   promises, join_count, swap_count>>

\* Contract::ft_on_transfer, called by the token contract on an inbound transfer
FtOnTransfer(sender_id, token_id, amount) ==
    /\ Get(Get(accounts, sender_id, Account_new).tokens, token_id, 0) + amount
          <= MaxCollaterals * MaxAmount
    /\ LET r == IF assert_contract_running
                THEN internal_deposit(accounts, whitelisted_tokens, sender_id, token_id, amount)
                ELSE [ok |-> FALSE, accounts |-> accounts]
       IN  /\ accounts' = r.accounts
           /\ last' = Call("ft_on_transfer", sender_id, token_id, amount, "-", 0, FALSE, r.ok)
    /\ UNCHANGED <<config, price_oracle, collaterals, user_collaterals, debt_pool, account_book,
                   promises, join_count, swap_count>>

\* Contract::swap_in_debtpool
SwapInDebtpool(sender_id, old_raft, new_raft, swap_amount) ==
    /\ LET r == swap_in_debtpool(sender_id, old_raft, new_raft, swap_amount)
       IN  /\ swap_count < MaxSwaps
           /\ debt_pool' = r.dp
           /\ swap_count' = swap_count + 1
           /\ last' = Call("swap_in_debtpool", sender_id, old_raft, swap_amount, new_raft, 0,
                           TRUE, r.ok)
    /\ UNCHANGED <<config, price_oracle, accounts, collaterals, user_collaterals,
                   account_book, promises, join_count>>

\* Contract::swap_in_accountbook
SwapInAccountbook(sender_id, old_raft, new_raft, swap_amount) ==
    /\ LET r == swap_in_accountbook(sender_id, old_raft, new_raft, swap_amount)
       IN  /\ swap_count < MaxSwaps
           /\ debt_pool' = r.dp
           /\ account_book' = r.ab
           /\ swap_count' = swap_count + 1
           /\ last' = Call("swap_in_accountbook", sender_id, old_raft, swap_amount, new_raft,
                           0, FALSE, r.ok)
    /\ UNCHANGED <<config, price_oracle, accounts, collaterals, user_collaterals,
                   promises, join_count>>

\* Contract::set_exchange_fee
SetExchangeFee(sender_id, fee) ==
    /\ exchange_fee' = IF assert_owner(sender_id) /\ fee <= FEE_DIVISOR
                       THEN fee ELSE exchange_fee
    /\ last' = Call("set_exchange_fee", sender_id, "-", fee, "-", 0, FALSE,
                    assert_owner(sender_id) /\ fee <= FEE_DIVISOR)
    /\ UNCHANGED <<owner_id, state, leverage_ratio, interest_fee, whitelisted_tokens,
                   token_list, whitelisted_rafts, raft_list, price_oracle, accounts,
                   collaterals, user_collaterals, debt_pool, account_book, promises,
                   join_count, swap_count>>

\* Contract::change_state
ChangeState(sender_id, new_state) ==
    /\ state' = IF assert_owner(sender_id) THEN new_state ELSE state
    /\ last' = Call("change_state", sender_id, new_state, 0, "-", 0, FALSE,
                    assert_owner(sender_id))
    /\ UNCHANGED <<owner_id, leverage_ratio, interest_fee, exchange_fee, whitelisted_tokens,
                   token_list, whitelisted_rafts, raft_list, price_oracle, accounts,
                   collaterals, user_collaterals, debt_pool, account_book, promises,
                   join_count, swap_count>>

\* Contract::set_interest_fee
SetInterestFee(sender_id, fee) ==
    /\ interest_fee' = IF assert_owner(sender_id) /\ fee <= FEE_DIVISOR
                       THEN fee ELSE interest_fee
    /\ last' = Call("set_interest_fee", sender_id, "-", fee, "-", 0, FALSE,
                    assert_owner(sender_id) /\ fee <= FEE_DIVISOR)
    /\ UNCHANGED <<owner_id, state, leverage_ratio, exchange_fee, whitelisted_tokens,
                   token_list, whitelisted_rafts, raft_list, price_oracle, accounts,
                   collaterals, user_collaterals, debt_pool, account_book, promises,
                   join_count, swap_count>>

\* Contract::set_leverage_ratio
SetLeverageRatio(sender_id, ratio) ==
    /\ leverage_ratio' = IF assert_owner(sender_id) /\ ratio[1] >= 1 /\ ratio[2] <= 100
                         THEN ratio ELSE leverage_ratio
    /\ last' = Call("set_leverage_ratio", sender_id, "-", ratio[1], "-", ratio[2], FALSE,
                    assert_owner(sender_id) /\ ratio[1] >= 1 /\ ratio[2] <= 100)
    /\ UNCHANGED <<owner_id, state, interest_fee, exchange_fee, whitelisted_tokens,
                   token_list, whitelisted_rafts, raft_list, price_oracle, accounts,
                   collaterals, user_collaterals, debt_pool, account_book, promises,
                   join_count, swap_count>>

\* DebtPool::calc_add_raft_amount applied to the stored position of raft_id
CalcAddRaftAmount(raft_id, amount) ==
    /\ raft_id \in DOMAIN debt_pool.raft_amounts
    /\ debt_pool' = DebtPool_calc_add_raft_amount(debt_pool, raft_id,
                        debt_pool.raft_amounts[raft_id], amount)
    /\ debt_pool'.raft_amounts[raft_id].amount <= MaxMagnitude
    /\ last' = Call("calc_add_raft_amount", "-", raft_id, amount, "-", 0, FALSE, TRUE)
    /\ UNCHANGED <<config, price_oracle, accounts, collaterals, user_collaterals,
                   account_book, promises, join_count, swap_count>>

\* DebtPool::calc_sub_raft_amount applied to the stored position of raft_id
CalcSubRaftAmount(raft_id, amount) ==
    /\ raft_id \in DOMAIN debt_pool.raft_amounts
    /\ debt_pool' = DebtPool_calc_sub_raft_amount(debt_pool, raft_id,
                        debt_pool.raft_amounts[raft_id], amount)
    /\ debt_pool'.raft_amounts[raft_id].amount <= MaxMagnitude
    /\ last' = Call("calc_sub_raft_amount", "-", raft_id, amount, "-", 0, FALSE, TRUE)
    /\ UNCHANGED <<config, price_oracle, accounts, collaterals, user_collaterals,
                   account_book, promises, join_count, swap_count>>

\* Contract::redeem_in_accountbook; at most `limit` promise chains in flight
RedeemInAccountbook(limit, sender_id, collateral_id) ==
    /\ Len(promises) < limit
    /\ LET r == redeem_in_accountbook(sender_id, collateral_id)
       IN  /\ account_book' = r.ab
           /\ accounts' = r.accounts
           /\ promises' = r.promises
           /\ last' = Call("redeem_in_accountbook", sender_id, "-", collateral_id, "-", 0,
                           FALSE, r.ok)
    /\ UNCHANGED <<config, price_oracle, collaterals, user_collaterals, debt_pool,
                   join_count, swap_count>>

\* Contract::exchange_callback_post_withdraw, run when the ft_transfer of
\* promises[i] has resolved with promise_result
ExchangeCallbackPostWithdraw(i, promise_result) ==
    /\ i \in DOMAIN promises
    /\ promises[i].kind = "ft_transfer"
    /\ LET p == promises[i]
           r == exchange_callback_post_withdraw(accounts, whitelisted_tokens, owner_id,
                                                p.token, p.sender_id, p.token_amount,
                                                promise_result)
       IN  /\ accounts' = r.accounts
           /\ last' = [Call("exchange_callback_post_withdraw", p.sender_id, p.token,
                            p.token_amount, "-", 0, FALSE, r.ok)
                          EXCEPT !.promise_result = promise_result]
    /\ promises' = RemoveAt(promises, i)
    /\ UNCHANGED <<config, price_oracle, collaterals, user_collaterals, debt_pool,
                   account_book, join_count, swap_count>>

\* Contract::register_tokens with one token id
RegisterTokens(sender_id, token_id) ==
    /\ LET r == IF assert_contract_running /\ sender_id \in DOMAIN accounts
                THEN internal_save_account(accounts, sender_id,
                                           Account_register(accounts[sender_id], token_id))
                ELSE [ok |-> FALSE, accounts |-> accounts]
       IN  /\ accounts' = r.accounts
           /\ last' = Call("register_tokens", sender_id, token_id, 0, "-", 0, FALSE, r.ok)
    /\ UNCHANGED <<config, price_oracle, collaterals, user_collaterals, debt_pool,
                   account_book, promises, join_count, swap_count>>

\* Contract::unregister_tokens with one token id
UnregisterTokens(sender_id, token_id) ==
    /\ LET r == IF /\ assert_contract_running
                   /\ sender_id \in DOMAIN accounts
                   /\ ~Account_unregister_panics(accounts[sender_id], token_id)
                THEN internal_save_account(accounts, sender_id,
                                           Account_unregister(accounts[sender_id], token_id))
                ELSE [ok |-> FALSE, accounts |-> accounts]
       IN  /\ accounts' = r.accounts
           /\ last' = Call("unregister_tokens", sender_id, token_id, 0, "-", 0, FALSE, r.ok)
    /\ UNCHANGED <<config, price_oracle, collaterals, user_collaterals, debt_pool,
                   account_book, promises, join_count, swap_count>>

\* Contract::remove_whitelisted_tokens with one token
RemoveWhitelistedTokens(sender_id, token) ==
    /\ whitelisted_tokens' = IF assert_owner(sender_id)
                             THEN whitelisted_tokens \ {token} ELSE whitelisted_tokens
    /\ last' = Call("remove_whitelisted_tokens", sender_id, token, 0, "-", 0, FALSE,
                    assert_owner(sender_id))
    /\ UNCHANGED <<owner_id, state, leverage_ratio, interest_fee, exchange_fee,
                   token_list, whitelisted_rafts, raft_list, price_oracle, accounts,
                   collaterals, user_collaterals, debt_pool, account_book, promises,
                   join_count, swap_count>>

\* Contract::deposit_in_accountbook; at most `limit` promise chains in flight
DepositInAccountbook(limit, sender_id, raft_id, amount) ==
    /\ Len(promises) < limit
    /\ promises' = IF deposit_in_accountbook_ok
                   THEN Append(promises, account_book_promise("burn", sender_id, raft_id, amount))
                   ELSE promises
    /\ last' = Call("deposit_in_accountbook", sender_id, "-", amount, raft_id, 0, FALSE,
                    deposit_in_accountbook_ok)
    /\ UNCHANGED <<config, price_oracle, accounts, collaterals, user_collaterals, debt_pool,
                   account_book, join_count, swap_count>>

\* Contract::withdraw_in_accountbook; at most `limit` promise chains in flight
WithdrawInAccountbook(limit, sender_id, raft_id, amount) ==
    /\ Len(promises) < limit
    /\ promises' = IF withdraw_in_accountbook_ok(sender_id, raft_id, amount)
                   THEN Append(promises, account_book_promise("mint", sender_id, raft_id, amount))
                   ELSE promises
    /\ last' = Call("withdraw_in_accountbook", sender_id, "-", amount, raft_id, 0, FALSE,
                    withdraw_in_accountbook_ok(sender_id, raft_id, amount))
    /\ UNCHANGED <<config, price_oracle, accounts, collaterals, user_collaterals, debt_pool,
                   account_book, join_count, swap_count>>

\* Contract::account_book_callback_deposit, run when the burn of promises[i]
\* has resolved with promise_result, which the callback does not read
AccountBookCallbackDeposit(i, promise_result) ==
    /\ i \in DOMAIN promises
    /\ promises[i].kind = "burn"
    /\ LET p == promises[i]
       IN  /\ account_book' = account_book_callback_deposit(account_book, p.sender_id, p.raft,
                                   p.token_amount, p.raft_amount, p.user_raft_amount)
           /\ last' = [Call("account_book_callback_deposit", p.sender_id, "-",
                            p.token_amount, p.raft, p.raft_amount, FALSE, TRUE)
                          EXCEPT !.promise_result = promise_result]
    /\ promises' = RemoveAt(promises, i)
    /\ UNCHANGED <<config, price_oracle, accounts, collaterals, user_collaterals, debt_pool,
                   join_count, swap_count>>

\* Contract::account_book_callback_withdraw, run when the mint of promises[i]
\* has resolved with promise_result, which the callback does not read
AccountBookCallbackWithdraw(i, promise_result) ==
    /\ i \in DOMAIN promises
    /\ promises[i].kind = "mint"
    /\ LET p == promises[i]
       IN  /\ account_book' = account_book_callback_withdraw(account_book, p.sender_id, p.raft,
                                   p.token_amount, p.raft_amount, p.user_raft_amount)
           /\ last' = [Call("account_book_callback_withdraw", p.sender_id, "-",
                            p.token_amount, p.raft, p.raft_amount, FALSE, TRUE)
                          EXCEPT !.promise_result = promise_result]
    /\ promises' = RemoveAt(promises, i)
    /\ UNCHANGED <<config, price_oracle, accounts, collaterals, user_collaterals, debt_pool,
                   join_count, swap_count>>

\* PriceInfo::get_price: the read panics for an asset without an entry
GetPrice(asset) ==
    /\ last' = Call("get_price", "-", asset,
                    IF has_price(price_oracle, asset) THEN get_price(price_oracle, asset) ELSE 0,
                    "-", 0, FALSE, has_price(price_oracle, asset))
    /\ UNCHANGED <<config, price_oracle, accounts, collaterals, user_collaterals, debt_pool,
                   account_book, promises, join_count, swap_count>>

\* DebtPool::calc_debt_ratio applied to the stored ratios; as in join, the new
\* total value is zero or not below the old one, and the recalculation is
\* counted in join_count
CalcDebtRatio(old_total_value, new_total_value, sender_id) ==
    /\ join_count < MaxJoins
    /\ join_count' = join_count + 1
    /\ new_total_value = 0 \/ old_total_value <= new_total_value
    /\ debt_pool' = DebtPool_calc_debt_ratio(debt_pool, old_total_value, new_total_value,
                                             sender_id)
    /\ last' = Call("calc_debt_ratio", sender_id, "-", old_total_value, "-", new_total_value,
                    FALSE, TRUE)
    /\ UNCHANGED <<config, price_oracle, accounts, collaterals, user_collaterals,
                   account_book, promises, swap_count>>

\* DebtPool::calc_all_debt_ratio applied to the stored ratios, counted in
\* join_count as well
CalcAllDebtRatio(old_total_value, new_total_value) ==
    /\ join_count < MaxJoins
    /\ join_count' = join_count + 1
    /\ debt_pool' = DebtPool_calc_all_debt_ratio(debt_pool, old_total_value, new_total_value)
    /\ last' = Call("calc_all_debt_ratio", "-", "-", old_total_value, "-", new_total_value,
                    FALSE, TRUE)
    /\ UNCHANGED <<config, price_oracle, accounts, collaterals, user_collaterals,
                   account_book, promises, swap_count>>

\* ------------------------------------------------------------------------
\* Specifications
\* ------------------------------------------------------------------------
\* Contract::new, followed by the owner's registration of the assets
InitContract ==
    /\ owner_id = OWNER
    /\ state = "Running"
    /\ leverage_ratio = <<1, 10>>
    /\ interest_fee = 0
    /\ exchange_fee = 3
    /\ accounts = EmptyMap
    /\ whitelisted_tokens = {WNEAR}
    /\ token_list = [a \in {WNEAR, RUSD} |->
                        IF a = WNEAR THEN Asset("wNEAR", 1, WNEAR, 150)
                        ELSE Asset("rUSD", 0, RUSD, 150)]
    /\ whitelisted_rafts = {RUSD, RBTC}
    /\ raft_list = [a \in {RUSD, RBTC} |->
                       IF a = RUSD THEN Asset("rUSD", 0, RUSD, 0)
                       ELSE Asset("rBTC", 0, RBTC, 0)]
    /\ collaterals = <<>>
    /\ user_collaterals = EmptyMap
    /\ debt_pool = DebtPool_new
    /\ account_book = AccountBook_new
    /\ promises = <<>>
    /\ join_count = 0
    /\ swap_count = 0
    /\ last = Call("new", OWNER, "-", 0, "-", 0, FALSE, TRUE)

\* prices fed in units of PRICE_PRECISION: rUSD at 1, rBTC at 3, wNEAR at 10
Init ==
    /\ InitContract
    /\ price_oracle = [a \in Assets |->
                          IF a = RUSD THEN PRICE_PRECISION
                          ELSE IF a = RBTC THEN 3 * PRICE_PRECISION
                          ELSE 10 * PRICE_PRECISION]

\* PriceInfo::feed_price, called by the oracle feeder
FeedPrice(asset, price) ==
    /\ price_oracle' = feed_price(price_oracle, asset, price)
    /\ last' = Call("feed_price", "-", asset, price, "-", 0, FALSE, TRUE)
    /\ UNCHANGED <<config, accounts, collaterals, user_collaterals, debt_pool,
                   account_book, promises, join_count, swap_count>>

\* at most `limit` mints are in flight or recorded; amounts up to `amount`,
\* join_debtpool drawn from `pools`
MintStep(limit, amount, pools) ==
    /\ Len(collaterals) + Len(promises) < limit
    /\ \E sender_id \in Users, token \in Tokens, raft \in Rafts,
          token_amount \in 1..amount, raft_amount \in 1..amount,
          join_debtpool \in pools :
           Mint(sender_id, token, token_amount, raft, raft_amount, join_debtpool)

MintCallbackStep ==
    \E i \in 1..MaxPending, promise_result \in PromiseResults : MintCallback(i, promise_result)

Next ==
    \/ MintStep(MaxCollaterals, MaxAmount, BOOLEAN)
    \/ MintCallbackStep
    \/ \E sender_id \in Users : RedeemInDebtpool(sender_id)
    \/ \E account_id \in Users :
          StorageDeposit(account_id,
              INIT_ACCOUNT_STORAGE + KEY_PREFIX_ACC + ACC_ID_AS_KEY_STORAGE + U128_STORAGE)
    \/ \E sender_id \in Users, token_id \in Tokens :
          FtOnTransfer(sender_id, token_id, MaxCollaterals * MaxAmount)
    \/ \E price \in {PRICE_PRECISION, 3 * PRICE_PRECISION} : FeedPrice(RBTC, price)

Spec == Init /\ [][Next]_vars

\* The pool under mints that join it (join_debtpool = true) only, with the
\* same prices fed in whole units
InitJoin ==
    /\ InitContract
    /\ price_oracle = [a \in Assets |->
                          IF a = RUSD THEN 1 ELSE IF a = RBTC THEN 3 ELSE 10]

NextJoin == MintStep(MaxJoins, MaxJoinAmount, {TRUE}) \/ MintCallbackStep

SpecJoin == InitJoin /\ [][NextJoin]_vars

\* The ledgers under swaps.  The initial states are those reached from
\* InitJoin by mint(alice, wnear, a, rbtc, a, true), mint(bob, wnear, b, rusd,
\* b, true) and mint(alice, wnear, 2, rusd, 1, false), each followed by its
\* callback: two users in the pool and one rUSD row in the account book.
InitSwap ==
    /\ owner_id = OWNER
    /\ state = "Running"
    /\ leverage_ratio = <<1, 10>>
    /\ interest_fee = 0
    /\ exchange_fee = 3
    /\ accounts = EmptyMap
    /\ whitelisted_tokens = {WNEAR}
    /\ token_list = [a \in {WNEAR, RUSD} |->
                        IF a = WNEAR THEN Asset("wNEAR", 1, WNEAR, 150)
                        ELSE Asset("rUSD", 0, RUSD, 150)]
    /\ whitelisted_rafts = {RUSD, RBTC}
    /\ raft_list = [a \in {RUSD, RBTC} |->
                       IF a = RUSD THEN Asset("rUSD", 0, RUSD, 0)
                       ELSE Asset("rBTC", 0, RBTC, 0)]
    /\ price_oracle = [a \in Assets |->
                          IF a = RUSD THEN 1 ELSE IF a = RBTC THEN 3 ELSE 10]
    /\ user_collaterals = EmptyMap
    /\ promises = <<>>
    /\ join_count = 1
    /\ swap_count = 0
    /\ \E a \in 1..MaxAmount, b \in 1..MaxAmount :
          /\ debt_pool =
                DebtPool_join(
                    DebtPool_join(DebtPool_new, price_oracle, "alice", RBTC, a),
                    price_oracle, "bob", RUSD, b)
          /\ account_book = AccountBook_mint(AccountBook_new, "alice", RUSD, 1)
          /\ collaterals = <<Collateral("alice", WNEAR, a, RBTC, a, TRUE),
                             Collateral("bob", WNEAR, b, RUSD, b, TRUE),
                             Collateral("alice", WNEAR, 2, RUSD, 1, FALSE)>>
    /\ last = [Call("mint_callback", "alice", WNEAR, 2, RUSD, 1, FALSE, TRUE)
                 EXCEPT !.promise_result = "Successful"]

NextSwap ==
    \/ \E sender_id \in AccountIds, old_raft \in Assets, new_raft \in Assets,
          swap_amount \in 0..MaxAmount :
           SwapInDebtpool(sender_id, old_raft, new_raft, swap_amount)
    \/ \E sender_id \in AccountIds, old_raft \in Assets, new_raft \in Assets,
          swap_amount \in 0..MaxAmount :
           SwapInAccountbook(sender_id, old_raft, new_raft, swap_amount)
    \/ \E sender_id \in {OWNER, "alice"}, fee \in {3, FEE_DIVISOR \div 2} :
           SetExchangeFee(sender_id, fee)

SpecSwap == InitSwap /\ [][NextSwap]_vars

\* The signed net-position helpers on their own: every stored position of
\* magnitude up to MaxMagnitude and either sign, every amount up to MaxMagnitude
InitBalance ==
    /\ owner_id = OWNER
    /\ state = "Running"
    /\ leverage_ratio = <<1, 10>>
    /\ interest_fee = 0
    /\ exchange_fee = 3
    /\ accounts = EmptyMap
    /\ whitelisted_tokens = {WNEAR}
    /\ token_list = [a \in {WNEAR, RUSD} |->
                        IF a = WNEAR THEN Asset("wNEAR", 1, WNEAR, 150)
                        ELSE Asset("rUSD", 0, RUSD, 150)]
    /\ whitelisted_rafts = {RUSD, RBTC}
    /\ raft_list = [a \in {RUSD, RBTC} |->
                       IF a = RUSD THEN Asset("rUSD", 0, RUSD, 0)
                       ELSE Asset("rBTC", 0, RBTC, 0)]
    /\ price_oracle = [a \in Assets |->
                          IF a = RUSD THEN 1 ELSE IF a = RBTC THEN 3 ELSE 10]
    /\ collaterals = <<>>
    /\ user_collaterals = EmptyMap
    /\ account_book = AccountBook_new
    /\ promises = <<>>
    /\ join_count = 0
    /\ swap_count = 0
    /\ \E m \in 0..MaxMagnitude, s \in BOOLEAN, n \in 0..MaxMagnitude, t \in BOOLEAN :
          debt_pool = DebtPool_insert_raft_amount(
                          DebtPool_insert_raft_amount(DebtPool_new, RUSD,
                                                      WrappedBalance(m, s)),
                          RBTC, WrappedBalance(n, t))
    /\ last = Call("new", OWNER, "-", 0, "-", 0, FALSE, TRUE)

NextBalance ==
    \/ \E raft_id \in Rafts, amount \in 0..MaxMagnitude : CalcAddRaftAmount(raft_id, amount)
    \/ \E raft_id \in Rafts, amount \in 0..MaxMagnitude : CalcSubRaftAmount(raft_id, amount)

SpecBalance == InitBalance /\ [][NextBalance]_vars

\* Pooled mints under a leverage band that the owner moves between the
\* default (1, 10) and the narrower (2, 3)
LeverageBands == {<<1, 10>>, <<2, 3>>}

\* mints (in flight or recorded) in the band and redemption specifications
MaxBandMints == 1

NextBand ==
    \/ MintStep(MaxBandMints, MaxAmount, {TRUE})
    \/ MintCallbackStep
    \/ \E ratio \in LeverageBands : SetLeverageRatio(OWNER, ratio)

SpecBand == InitJoin /\ [][NextBand]_vars

\* Individual mints (join_debtpool = false) only, prices in whole units
NextIndividual == MintStep(MaxCollaterals, MaxAmount, {FALSE}) \/ MintCallbackStep

SpecIndividual == InitJoin /\ [][NextIndividual]_vars

\* The release of collateral: alice mints rUSD individually against deposited
\* wNEAR, redeems from the AccountBook, and the outbound transfer resolves,
\* while she registers and unregisters token rows and the owner removes wNEAR
\* from the whitelist; she may also call redeem_in_debtpool.  bob only holds a
\* deposit.  An account pays for one token row.
NextRelease ==
    \/ \E account_id \in Users :
          StorageDeposit(account_id,
              INIT_ACCOUNT_STORAGE + KEY_PREFIX_ACC + ACC_ID_AS_KEY_STORAGE + U128_STORAGE)
    \/ \E sender_id \in Users : FtOnTransfer(sender_id, WNEAR, MaxAmount)
    \/ /\ Len(collaterals) + Len(promises) < MaxCollaterals
       /\ Mint("alice", WNEAR, MaxAmount, RUSD, 1, FALSE)
    \/ MintCallbackStep
    \/ \E collateral_id \in 0..(MaxCollaterals - 1) :
          RedeemInAccountbook(MaxPending, "alice", collateral_id)
    \/ \E i \in 1..MaxPending, promise_result \in PromiseResults :
          ExchangeCallbackPostWithdraw(i, promise_result)
    \/ \E token_id \in {WNEAR, RUSD} : RegisterTokens("alice", token_id)
    \/ \E token_id \in {WNEAR, RUSD} : UnregisterTokens("alice", token_id)
    \/ RemoveWhitelistedTokens(OWNER, WNEAR)
    \/ RedeemInDebtpool("alice")

SpecRelease == InitJoin /\ [][NextRelease]_vars

\* Redemption from the pool after pooled mints: alice pays for storage and
\* deposits wNEAR, either user mints into the pool and calls redeem_in_debtpool
NextRedeem ==
    \/ MintStep(MaxBandMints, MaxAmount, {TRUE})
    \/ MintCallbackStep
    \/ StorageDeposit("alice",
           INIT_ACCOUNT_STORAGE + KEY_PREFIX_ACC + ACC_ID_AS_KEY_STORAGE + U128_STORAGE)
    \/ FtOnTransfer("alice", WNEAR, MaxAmount)
    \/ \E sender_id \in Users : RedeemInDebtpool(sender_id)

SpecRedeem == InitJoin /\ [][NextRedeem]_vars

\* The AccountBook under deposits and withdrawals of rUSD by either user with
\* their callbacks in any interleaving, alice's individual mints and alice's
\* swaps of rUSD into rBTC
NextBook ==
    \/ /\ Len(collaterals) + Len(promises) < MaxBandMints
       /\ Mint("alice", WNEAR, MaxAmount, RUSD, 1, FALSE)
    \/ MintCallbackStep
    \/ \E sender_id \in Users :
          /\ AccountBook_query_raft_amount(account_book, RUSD) <= MaxBookAmount
          /\ AccountBook_query_user_raft_amount(account_book, sender_id, RUSD) <= MaxBookAmount
          /\ DepositInAccountbook(MaxBookPending, sender_id, RUSD, 1)
    \/ \E i \in 1..MaxBookPending, promise_result \in PromiseResults :
          AccountBookCallbackDeposit(i, promise_result)
    \/ \E sender_id \in Users, amount \in 0..MaxAmount :
          WithdrawInAccountbook(MaxBookPending, sender_id, RUSD, amount)
    \/ \E i \in 1..MaxBookPending, promise_result \in PromiseResults :
          AccountBookCallbackWithdraw(i, promise_result)
    \/ SwapInAccountbook("alice", RUSD, RBTC, 1)

SpecBook == InitJoin /\ [][NextBook]_vars

\* Deposits into and withdrawals from the AccountBook, one promise chain at a
\* time
NextWithdraw ==
    \/ \E sender_id \in Users :
          /\ AccountBook_query_raft_amount(account_book, RUSD) <= MaxBookAmount
          /\ AccountBook_query_user_raft_amount(account_book, sender_id, RUSD) <= MaxBookAmount
          /\ DepositInAccountbook(MaxPending, sender_id, RUSD, 1)
    \/ \E i \in 1..MaxPending, promise_result \in PromiseResults :
          AccountBookCallbackDeposit(i, promise_result)
    \/ \E sender_id \in Users, amount \in 0..MaxAmount :
          WithdrawInAccountbook(MaxPending, sender_id, RUSD, amount)
    \/ \E i \in 1..MaxPending, promise_result \in PromiseResults :
          AccountBookCallbackWithdraw(i, promise_result)

SpecWithdraw == InitJoin /\ [][NextWithdraw]_vars

\* The oracle alone, from the empty price map of Contract::new
InitOracle ==
    /\ InitContract
    /\ price_oracle = EmptyMap

NextOracle ==
    \/ \E asset \in Assets, price \in 0..MaxPrice : FeedPrice(asset, price)
    \/ \E asset \in Assets : GetPrice(asset)

SpecOracle == InitOracle /\ [][NextOracle]_vars

\* The debt-ratio recalculations on their own, from the pools of InitSwap:
\* every pair of total values up to MaxAmount
NextRatio ==
    \/ \E old_total_value \in 0..MaxAmount, new_total_value \in 0..MaxAmount,
          sender_id \in AccountIds :
           CalcDebtRatio(old_total_value, new_total_value, sender_id)
    \/ \E old_total_value \in 0..MaxAmount, new_total_value \in 0..MaxAmount :
           CalcAllDebtRatio(old_total_value, new_total_value)

SpecRatio == InitSwap /\ [][NextRatio]_vars

\* Individual positions of the owner and of alice with an interest fee: wNEAR
\* is fed at 20, so MaxAmount wNEAR back up to 2 rUSD; either account pays for
\* storage, deposits wNEAR, mints rUSD individually and redeems from the
\* AccountBook, while the owner moves the interest fee between 0 and 50 %
Issuers == {OWNER, "alice"}

InitIssuer ==
    /\ InitContract
    /\ price_oracle = [a \in Assets |->
                          IF a = RUSD THEN 1 ELSE IF a = RBTC THEN 3 ELSE 20]

NextIssuer ==
    \/ \E account_id \in Issuers :
          StorageDeposit(account_id,
              INIT_ACCOUNT_STORAGE + KEY_PREFIX_ACC + ACC_ID_AS_KEY_STORAGE + U128_STORAGE)
    \/ \E sender_id \in Issuers : FtOnTransfer(sender_id, WNEAR, MaxAmount)
    \/ \E sender_id \in Issuers, raft_amount \in 1..2 :
          /\ Len(collaterals) + Len(promises) < MaxCollaterals
          /\ Mint(sender_id, WNEAR, MaxAmount, RUSD, raft_amount, FALSE)
    \/ MintCallbackStep
    \/ \E sender_id \in Issuers, collateral_id \in 0..(MaxCollaterals - 1) :
          RedeemInAccountbook(MaxPending, sender_id, collateral_id)
    \/ \E i \in 1..MaxPending, promise_result \in PromiseResults :
          ExchangeCallbackPostWithdraw(i, promise_result)
    \/ \E fee \in {0, FEE_DIVISOR \div 2} : SetInterestFee(OWNER, fee)

SpecIssuer == InitIssuer /\ [][NextIssuer]_vars

\* Repeated individual redemption: alice pays for storage, deposits wNEAR,
\* mints 1 or 2 rUSD individually and redeems from the AccountBook with up to
\* MaxBookPending transfers in flight; every outbound transfer succeeds, so
\* each successful redemption hands its collateral out for good
NextTwice ==
    \/ StorageDeposit("alice",
           INIT_ACCOUNT_STORAGE + KEY_PREFIX_ACC + ACC_ID_AS_KEY_STORAGE + U128_STORAGE)
    \/ FtOnTransfer("alice", WNEAR, MaxAmount)
    \/ \E raft_amount \in 1..2 :
          /\ Len(collaterals) + Len(promises) < MaxCollaterals
          /\ Mint("alice", WNEAR, MaxAmount, RUSD, raft_amount, FALSE)
    \/ MintCallbackStep
    \/ \E collateral_id \in 0..(MaxCollaterals - 1) :
          RedeemInAccountbook(MaxBookPending, "alice", collateral_id)
    \/ \E i \in 1..MaxBookPending : ExchangeCallbackPostWithdraw(i, "Successful")

SpecTwice == InitIssuer /\ [][NextTwice]_vars

\* The pause gate: the owner (and, without effect, alice) switches the contract
\* between Running and Paused while alice pays for storage and calls every
\* user-facing entry point: deposits of wNEAR, pooled and individual mints,
\* swaps, redemptions, AccountBook deposits and withdrawals, registration and
\* unregistration of rUSD rows; she starts a promise chain only when none is
\* in flight, and the callbacks, each after a successful promise, run in
\* either state
RunningStates == {"Running", "Paused"}

NextPause ==
    \/ \E sender_id \in {OWNER, "alice"}, new_state \in RunningStates :
          ChangeState(sender_id, new_state)
    \/ StorageDeposit("alice",
           INIT_ACCOUNT_STORAGE + KEY_PREFIX_ACC + ACC_ID_AS_KEY_STORAGE + U128_STORAGE)
    \/ /\ Get(Get(accounts, "alice", Account_new).tokens, WNEAR, 0) = 0
       /\ FtOnTransfer("alice", WNEAR, MaxAmount)
    \/ \E join_debtpool \in BOOLEAN :
          /\ promises = <<>>
          /\ Len(collaterals) < MaxBandMints
          /\ Mint("alice", WNEAR, MaxAmount, RUSD, 1, join_debtpool)
    \/ \E i \in 1..MaxPending : MintCallback(i, "Successful")
    \/ SwapInDebtpool("alice", RUSD, RBTC, 1)
    \/ SwapInAccountbook("alice", RUSD, RBTC, 1)
    \/ RedeemInDebtpool("alice")
    \/ \E collateral_id \in 0..(MaxBandMints - 1) :
          /\ promises = <<>>
          /\ RedeemInAccountbook(MaxPending, "alice", collateral_id)
    \/ \E i \in 1..MaxPending : ExchangeCallbackPostWithdraw(i, "Successful")
    \/ /\ promises = <<>>
       /\ AccountBook_query_user_raft_amount(account_book, "alice", RUSD) <= MaxBookAmount
       /\ DepositInAccountbook(MaxPending, "alice", RUSD, 1)
    \/ \E i \in 1..MaxPending : AccountBookCallbackDeposit(i, "Successful")
    \/ /\ promises = <<>>
       /\ WithdrawInAccountbook(MaxPending, "alice", RUSD, 1)
    \/ \E i \in 1..MaxPending : AccountBookCallbackWithdraw(i, "Successful")
    \/ RegisterTokens("alice", RUSD)
    \/ UnregisterTokens("alice", RUSD)

SpecPause == InitJoin /\ [][NextPause]_vars

\* ------------------------------------------------------------------------
\* Properties
\* ------------------------------------------------------------------------
\* the signed integer a WrappedBalance stands for
Signed(wbalance) == IF wbalance.is_positive THEN wbalance.amount ELSE 0 - wbalance.amount

\* the pool's signed net position of a raft (zero when untracked)
NetPosition(dp, raft) ==
    IF raft \in DOMAIN dp.raft_amounts THEN Signed(dp.raft_amounts[raft]) ELSE 0

RatioSum(dp) == SumMap(dp.debt_ratios)

Tracked(dp) == DOMAIN dp.debt_ratios

\* this step is a mint callback that ran DebtPool.join to its end
JoinStep ==
    /\ Len(promises') < Len(promises)
    /\ last'.op = "mint_callback"
    /\ last'.ok
    /\ last'.join_debtpool

\* C1: under joins only, with fixed positive prices, the tracked debt ratios
\* never sum to more than RATIO_DIVISOR, and the sum falls short of it by less
\* than one unit per tracked user per join performed on the non-empty pool.
C1_JoinOnlyRatioSum ==
    Tracked(debt_pool) # {} =>
        LET shortfall == RATIO_DIVISOR - RatioSum(debt_pool)
        IN  /\ shortfall >= 0
            /\ \/ shortfall = 0
               \/ shortfall < join_count * Cardinality(Tracked(debt_pool))

\* C1 witness: two users are tracked after several joins and rounding has cost a unit
C1_Witness ==
    /\ join_count >= 2
    /\ Cardinality(Tracked(debt_pool)) = 2
    /\ RatioSum(debt_pool) = RATIO_DIVISOR - 1

\* C3: a join of value J into a non-empty pool of total value T, T + J > 0,
\* leaves every other tracked user with floor(old_ratio * T / (T + J)) and the
\* joiner with floor((old_ratio_of_joiner * T + J * RATIO_DIVISOR) / (T + J)),
\* the joiner's old ratio being 0 when the joiner was not tracked.
C3_JoinRedistribution ==
    [][(JoinStep /\ DOMAIN debt_pool.raft_amounts # {}) =>
        LET T == DebtPool_calc_raft_total_value(debt_pool, price_oracle)
            J == get_price(price_oracle, last'.raft) * last'.raft_amount
            old == debt_pool.debt_ratios
            new == debt_pool'.debt_ratios
            joiner == last'.sender_id
            old_joiner == IF joiner \in DOMAIN old THEN old[joiner] ELSE 0
        IN  T + J > 0 =>
              /\ DOMAIN new = DOMAIN old \cup {joiner}
              /\ \A u \in DOMAIN old \ {joiner} :
                    /\ new[u] * (T + J) <= old[u] * T
                    /\ old[u] * T < (new[u] + 1) * (T + J)
              /\ new[joiner] * (T + J) <= old_joiner * T + J * RATIO_DIVISOR
              /\ old_joiner * T + J * RATIO_DIVISOR < (new[joiner] + 1) * (T + J)
    ]_vars

\* C3 witness: a second depositor of equal value has joined a sole depositor
C3_Witness ==
    /\ last.op = "mint_callback" /\ last.ok /\ last.join_debtpool
    /\ join_count = 1
    /\ Tracked(debt_pool) = Users
    /\ \A u \in Users : debt_pool.debt_ratios[u] = 500000

\* C4: a join into a pool without tracked asset positions sets the asset's net
\* position to +amount, the user's contribution in the asset to amount and the
\* user's debt ratio to RATIO_DIVISOR.
C4_GenesisJoin ==
    [][(JoinStep /\ DOMAIN debt_pool.raft_amounts = {}) =>
        /\ DOMAIN debt_pool'.raft_amounts = {last'.raft}
        /\ debt_pool'.raft_amounts[last'.raft].amount = last'.raft_amount
        /\ debt_pool'.raft_amounts[last'.raft].is_positive
        /\ DOMAIN debt_pool'.user_raft_amounts = {<<last'.sender_id, last'.raft>>}
        /\ debt_pool'.user_raft_amounts[<<last'.sender_id, last'.raft>>] = last'.raft_amount
        /\ DOMAIN debt_pool'.debt_ratios = {last'.sender_id}
        /\ debt_pool'.debt_ratios[last'.sender_id] = RATIO_DIVISOR
    ]_vars

\* C4 witness: the genesis join has just run
C4_Witness ==
    /\ last.op = "mint_callback" /\ last.ok /\ last.join_debtpool
    /\ join_count = 0
    /\ Len(collaterals) = 1
    /\ DOMAIN debt_pool.raft_amounts = {last.raft}

\* C5: a join into a non-empty pool adds the amount to the pool's signed net
\* position of the asset and to the user's contribution row of the asset, and
\* leaves the other assets' positions and the other rows unchanged.
C5_JoinAccumulates ==
    [][(JoinStep /\ DOMAIN debt_pool.raft_amounts # {}) =>
        /\ NetPosition(debt_pool', last'.raft)
              = NetPosition(debt_pool, last'.raft) + last'.raft_amount
        /\ DebtPool_query_user_raft_amount(debt_pool', last'.sender_id, last'.raft)
              = DebtPool_query_user_raft_amount(debt_pool, last'.sender_id, last'.raft)
                  + last'.raft_amount
        /\ \A r \in Rafts \ {last'.raft} :
              NetPosition(debt_pool', r) = NetPosition(debt_pool, r)
        /\ \A u \in AccountIds, r \in Rafts :
              <<u, r>> # <<last'.sender_id, last'.raft>> =>
                  DebtPool_query_user_raft_amount(debt_pool', u, r)
                      = DebtPool_query_user_raft_amount(debt_pool, u, r)
    ]_vars

\* ---- redemption from the pool -------------------------------------------
\* the Collateral records issued by a user
IssuedBy(user) == {i \in DOMAIN collaterals : collaterals[i].issuer = user}

\* the amount of a token locked by the records a user issued
LockedTokens(user, token) ==
    SumMap([i \in {j \in IssuedBy(user) : collaterals[j].token = token} |->
               collaterals[i].token_amount])

\* the user's deposit rows cover the collateral of the records the user issued
DepositCoversLocked(user) ==
    /\ user \in DOMAIN accounts
    /\ \A token \in Tokens :
          LockedTokens(user, token) > 0 =>
              /\ token \in DOMAIN accounts[user].tokens
              /\ accounts[user].tokens[token] >= LockedTokens(user, token)

\* the user's owed debt, total_pool_value * debt_ratio / RATIO_DIVISOR
UserDebt(user) ==
    MulDiv(DebtPool_calc_raft_total_value(debt_pool, price_oracle),
           DebtPool_query_debt_ratio(debt_pool, user), RATIO_DIVISOR)

UserDebtAmount(user) == UserDebt(user) \div PRICE_PRECISION

PooledRusd(user) == DebtPool_query_user_raft_amount(debt_pool, user, RUSD)

BookRusd(user) == AccountBook_query_user_raft_amount(account_book, user, RUSD)

\* the pooled settlement-asset holding covers the debt
DebtCovered(user) ==
    /\ UserDebt(user) > 0
    /\ UserDebt(user) <= PooledRusd(user) * PRICE_PRECISION

\* the pooled holding falls short and the account book covers the shortfall
DebtShortButBacked(user) ==
    /\ UserDebt(user) > PooledRusd(user) * PRICE_PRECISION
    /\ UserDebtAmount(user) > PooledRusd(user)
    /\ UserDebtAmount(user) <= PooledRusd(user) + BookRusd(user)

\* neither source suffices
DebtUnbacked(user) ==
    /\ UserDebt(user) > PooledRusd(user) * PRICE_PRECISION
    /\ UserDebtAmount(user) > PooledRusd(user) + BookRusd(user)

\* everything a pooled redemption by the user needs apart from the settlement:
\* the contract runs, rUSD is registered, the user has minted and the user's
\* deposit rows hold the locked collateral
RedeemReady(user) ==
    /\ assert_contract_running
    /\ query_rusd = {RUSD}
    /\ IssuedBy(user) # {}
    /\ DepositCoversLocked(user)

\* this step is a call of redeem_in_debtpool by the user
RedeemStep(user) ==
    /\ last'.op = "redeem_in_debtpool"
    /\ last'.sender_id = user

\* C2: when one participant of a multi-participant pool redeems, the
\* redeemer's entry goes and the remaining debt ratios sum to RATIO_DIVISOR
\* within one unit per remaining participant.
C2_RedeemKeepsRatioSum ==
    [][\A user \in Users :
        (/\ RedeemStep(user)
         /\ RedeemReady(user)
         /\ DebtCovered(user)
         /\ user \in Tracked(debt_pool)
         /\ Cardinality(Tracked(debt_pool)) >= 2) =>
            /\ Tracked(debt_pool') = Tracked(debt_pool) \ {user}
            /\ RATIO_DIVISOR - RatioSum(debt_pool') >= 0
            /\ RATIO_DIVISOR - RatioSum(debt_pool') <= Cardinality(Tracked(debt_pool'))
    ]_vars

\* C6: the sole depositor of the pool, holding ratio RATIO_DIVISOR, redeems at
\* once: the call succeeds and the user's debt-ratio entry is removed, so that
\* the user's claim on the pool is zero.
C6_SoleDepositorRoundTrip ==
    [][\A user \in Users :
        (/\ RedeemStep(user)
         /\ RedeemReady(user)
         /\ Len(collaterals) = 1
         /\ collaterals[1].join_debtpool
         /\ collaterals[1].raft = RUSD
         /\ Tracked(debt_pool) = {user}
         /\ debt_pool.debt_ratios[user] = RATIO_DIVISOR
         /\ DebtCovered(user)) =>
            /\ last'.ok
            /\ user \notin Tracked(debt_pool')
            /\ DebtPool_query_debt_ratio(debt_pool', user) = 0
    ]_vars

\* C7: when the caller's pooled rUSD covers the owed debt
\* total_pool_value * debt_ratio / RATIO_DIVISOR, the debt amount is taken
\* from the caller's pooled rUSD row and from the pool's rUSD net position,
\* and the caller's debt-ratio entry is removed.
C7_RedeemCovered ==
    [][\A user \in Users :
        (/\ RedeemStep(user)
         /\ RedeemReady(user)
         /\ DebtCovered(user)) =>
            /\ DebtPool_query_user_raft_amount(debt_pool', user, RUSD)
                  = PooledRusd(user) - UserDebtAmount(user)
            /\ NetPosition(debt_pool', RUSD)
                  = NetPosition(debt_pool, RUSD) - UserDebtAmount(user)
            /\ user \notin Tracked(debt_pool')
    ]_vars

\* C8: when the caller's pooled rUSD is less than the debt, the call succeeds
\* iff pooled plus AccountBook rUSD reach the debt amount; it then drains the
\* pooled row and takes the shortfall from the caller's AccountBook row and
\* from the AccountBook total, and otherwise it changes no ledger.
C8_RedeemShortfall ==
    [][\A user \in Users :
        /\ (/\ RedeemStep(user)
            /\ RedeemReady(user)
            /\ DebtShortButBacked(user)) =>
               /\ last'.ok
               /\ DebtPool_query_user_raft_amount(debt_pool', user, RUSD) = 0
               /\ user \notin Tracked(debt_pool')
               /\ AccountBook_query_user_raft_amount(account_book', user, RUSD)
                     = BookRusd(user) - (UserDebtAmount(user) - PooledRusd(user))
               /\ AccountBook_query_raft_amount(account_book', RUSD)
                     = AccountBook_query_raft_amount(account_book, RUSD)
                         - (UserDebtAmount(user) - PooledRusd(user))
        /\ (/\ RedeemStep(user)
            /\ RedeemReady(user)
            /\ DebtUnbacked(user)) =>
               /\ ~last'.ok
               /\ UNCHANGED <<debt_pool, account_book, accounts, promises>>
    ]_vars

\* C9: a successful pooled redemption leaves every pool-side row of the
\* caller zero or absent and moves each non-settlement pooled balance into
\* the caller's AccountBook row and the AccountBook total, the pool's signed
\* net position of that asset going down by the same amount.
C9_RedeemMigration ==
    [][\A user \in Users :
        (/\ RedeemStep(user)
         /\ RedeemReady(user)
         /\ DebtCovered(user) \/ DebtShortButBacked(user)
         /\ \E r \in Rafts \ {RUSD} :
               DebtPool_query_user_raft_amount(debt_pool, user, r) > 0) =>
            /\ last'.ok
            /\ \A r \in Rafts : DebtPool_query_user_raft_amount(debt_pool', user, r) = 0
            /\ \A r \in Rafts \ {RUSD} :
                  LET pooled == DebtPool_query_user_raft_amount(debt_pool, user, r)
                  IN  /\ AccountBook_query_user_raft_amount(account_book', user, r)
                            = AccountBook_query_user_raft_amount(account_book, user, r)
                                + pooled
                      /\ AccountBook_query_raft_amount(account_book', r)
                            = AccountBook_query_raft_amount(account_book, r) + pooled
                      /\ NetPosition(debt_pool', r) = NetPosition(debt_pool, r) - pooled
    ]_vars

\* C10: a successful pooled redemption debits, for every Collateral record of
\* the caller, the caller's deposit row of the collateral token by the
\* record's token_amount and issues one outbound transfer of that amount with
\* its compensation callback.
C10_RedeemReleasesCollateral ==
    [][\A user \in Users :
        (/\ RedeemStep(user)
         /\ RedeemReady(user)
         /\ DebtCovered(user) \/ DebtShortButBacked(user)) =>
            /\ last'.ok
            /\ \A token \in Tokens :
                  LockedTokens(user, token) > 0 =>
                      accounts'[user].tokens[token]
                          = accounts[user].tokens[token] - LockedTokens(user, token)
            /\ Len(promises') = Len(promises) + Cardinality(IssuedBy(user))
            /\ \A i \in IssuedBy(user) :
                  \E k \in (Len(promises) + 1)..Len(promises') :
                      promises'[k] = internal_send_tokens(user, collaterals[i].token,
                                                          collaterals[i].token_amount)
    ]_vars

\* C18: the mint callback changes DebtPool or AccountBook and appends a
\* Collateral record only when the collateral-token transfer before it
\* succeeded; after a failed transfer no ledger entry changes and no record
\* is appended.
C18_MintGatedOnTransfer ==
    [][(/\ Len(promises') < Len(promises)
        /\ last'.op = "mint_callback"
        /\ last'.promise_result = "Failed")
       => UNCHANGED <<debt_pool, account_book, collaterals>>
    ]_vars

\* ---- swaps ---------------------------------------------------------------
\* this step is a call of swap_in_debtpool; its arguments are in last'
PoolSwapCall == last'.op = "swap_in_debtpool"

\* this step is a swap_in_debtpool that ran to its end, by a caller other than
\* the owner, between two different assets
PoolSwapDone ==
    /\ PoolSwapCall
    /\ last'.ok
    /\ swap_count' = swap_count + 1
    /\ last'.sender_id # owner_id
    /\ last'.token # last'.raft

\* the fee and the credited amount of the swap recorded in last'
SwapFee == (last'.token_amount * exchange_fee) \div FEE_DIVISOR

SwapCredit ==
    (get_price(price_oracle, last'.token) * (last'.token_amount - SwapFee))
        \div get_price(price_oracle, last'.raft)

PooledRow(dp, user, raft) == Get(dp.user_raft_amounts, <<user, raft>>, 0)

\* the sum over the tracked assets of price times signed net position
SignedTotalValue(dp, prices) ==
    SumMap([r \in DOMAIN dp.raft_amounts |-> prices[r] * Signed(dp.raft_amounts[r])])

\* C11: swap_in_debtpool(old_asset, new_asset, amount) aborts and leaves
\* DebtPool (debt ratios included) and AccountBook unchanged whenever the
\* caller's own pooled contribution in old_asset is less than amount, or
\* amount is 0, or either asset is not a whitelisted raft.
C11_SwapPrecondition ==
    [][(/\ PoolSwapCall
        /\ \/ PooledRow(debt_pool, last'.sender_id, last'.token) < last'.token_amount
           \/ last'.token_amount = 0
           \/ last'.token \notin whitelisted_rafts
           \/ last'.raft \notin whitelisted_rafts)
       => /\ ~last'.ok
          /\ UNCHANGED <<debt_pool, account_book>>
    ]_vars

\* C11 witness: a swap between whitelisted rafts of a positive amount has just
\* aborted because the caller's positive contribution was smaller than it
C11_Witness ==
    /\ last.op = "swap_in_debtpool"
    /\ ~last.ok
    /\ last.token \in whitelisted_rafts
    /\ last.raft \in whitelisted_rafts
    /\ PooledRow(debt_pool, last.sender_id, last.token) > 0
    /\ PooledRow(debt_pool, last.sender_id, last.token) < last.token_amount

\* C12: a successful swap_in_debtpool of amount a, with fee = floor(a *
\* exchange_fee / FEE_DIVISOR), raises the owner's pooled row in old_asset by
\* fee, lowers the caller's pooled row in old_asset by a and lowers the pool's
\* signed net position in old_asset by a - fee.
C12_SwapFee ==
    [][PoolSwapDone =>
        /\ PooledRow(debt_pool', owner_id, last'.token)
              = PooledRow(debt_pool, owner_id, last'.token) + SwapFee
        /\ PooledRow(debt_pool', last'.sender_id, last'.token)
              = PooledRow(debt_pool, last'.sender_id, last'.token) - last'.token_amount
        /\ NetPosition(debt_pool', last'.token)
              = NetPosition(debt_pool, last'.token) - (last'.token_amount - SwapFee)
    ]_vars

\* C13: a successful swap_in_debtpool credits n = floor(price(old_asset) *
\* (a - fee) / price(new_asset)) to the caller's pooled row in new_asset and
\* to the pool's signed net position in new_asset: each is its previous value
\* plus n.
C13_SwapCreditSymmetry ==
    [][PoolSwapDone =>
        /\ PooledRow(debt_pool', last'.sender_id, last'.raft)
              = PooledRow(debt_pool, last'.sender_id, last'.raft) + SwapCredit
        /\ NetPosition(debt_pool', last'.raft)
              = NetPosition(debt_pool, last'.raft) + SwapCredit
    ]_vars

C15_SwapConservesValue ==
    [][PoolSwapDone =>
        LET before == DebtPool_calc_raft_total_value(debt_pool, price_oracle)
            after == DebtPool_calc_raft_total_value(debt_pool', price_oracle)
            user_before == DebtPool_calc_user_raft_total_value(debt_pool, price_oracle,
                                                               last'.sender_id)
            user_after == DebtPool_calc_user_raft_total_value(debt_pool', price_oracle,
                                                              last'.sender_id)
            unit == get_price(price_oracle, last'.token) + get_price(price_oracle, last'.raft)
            fee_value == get_price(price_oracle, last'.token) * SwapFee
        IN  /\ before - after < unit
            /\ after - before < unit
            /\ user_before - user_after - fee_value < unit
            /\ user_after + fee_value - user_before < unit
    ]_vars

\* C17: calc_raft_total_value is the sum over the tracked assets of price times
\* the signed net position, so a negative position lowers the total.
C17_TotalValueHonoursSign ==
    DebtPool_prices_known(debt_pool, price_oracle) =>
        DebtPool_calc_raft_total_value(debt_pool, price_oracle)
            = SignedTotalValue(debt_pool, price_oracle)

\* ---- signed net positions ------------------------------------------------
\* C16: for a stored position of magnitude m and sign s and an amount a,
\* calc_add_raft_amount stores a magnitude/sign pair standing for s*m + a and
\* calc_sub_raft_amount one standing for s*m - a; subtracting a > m from a
\* positive position stores (a - m, negative) and adding a > m to a negative
\* position stores (a - m, positive).
C16_SignedHelpers ==
    [][LET raft == last'.token
           a == last'.token_amount
           old == debt_pool.raft_amounts[raft]
           new == debt_pool'.raft_amounts[raft]
       IN  /\ last'.op = "calc_add_raft_amount" =>
                /\ new.amount >= 0
                /\ Signed(new) = Signed(old) + a
                /\ (~old.is_positive /\ a > old.amount) =>
                      (new.amount = a - old.amount /\ new.is_positive)
           /\ last'.op = "calc_sub_raft_amount" =>
                /\ new.amount >= 0
                /\ Signed(new) = Signed(old) - a
                /\ (old.is_positive /\ a > old.amount) =>
                      (new.amount = a - old.amount /\ ~new.is_positive)
    ]_vars

\* C16 witness: a subtraction larger than a positive position has just changed
\* its sign (a negative result smaller than the amount subtracted)
C16_Witness ==
    /\ last.op = "calc_sub_raft_amount"
    /\ ~debt_pool.raft_amounts[last.token].is_positive
    /\ debt_pool.raft_amounts[last.token].amount > 0
    /\ debt_pool.raft_amounts[last.token].amount < last.token_amount

\* ---- mint callback: the pool path's leverage band ---------------------------
\* this step is a mint_callback on the pool path; its arguments are in last'
PoolCallback ==
    /\ Len(promises') < Len(promises)
    /\ last'.op = "mint_callback"
    /\ last'.join_debtpool

\* numerator and denominator of the leverage ratio of the call recorded in c
LeverageNum(c) == price_oracle[c.raft] * c.raft_amount * Pow10(token_list[c.token].decimals)

LeverageDen(c) == price_oracle[c.token] * c.token_amount * Pow10(raft_list[c.raft].decimals)

\* floor(LeverageNum / LeverageDen) lies in the governance band
LeverageInBand(c) ==
    \E n \in leverage_ratio[1]..leverage_ratio[2] :
        /\ n * LeverageDen(c) <= LeverageNum(c)
        /\ LeverageNum(c) < (n + 1) * LeverageDen(c)

\* C19: on the pool path the mint callback joins the pool (and appends the
\* Collateral record) exactly when floor(price(raft) * raft_amount *
\* 10^token_decimals / (price(token) * token_amount * 10^raft_decimals)) lies
\* in [min, max]; otherwise it aborts, DebtPool unchanged, no record appended.
C19_PooledMintBand ==
    [][PoolCallback =>
        IF LeverageInBand(last')
        THEN /\ last'.ok
             /\ debt_pool' = DebtPool_join(debt_pool, price_oracle, last'.sender_id,
                                           last'.raft, last'.raft_amount)
             /\ Len(collaterals') = Len(collaterals) + 1
        ELSE /\ ~last'.ok
             /\ UNCHANGED <<debt_pool, collaterals>>
    ]_vars

\* a pooled mint callback was aborted because its leverage ratio is above max
C19_Witness ==
    /\ last.op = "mint_callback"
    /\ last.join_debtpool
    /\ ~last.ok
    /\ LeverageNum(last) >= (leverage_ratio[2] + 1) * LeverageDen(last)

\* ---- mint callback: the individual path's collateral threshold --------------
\* this step is a mint_callback on the individual path; its arguments are in last'
IndividualCallback ==
    /\ Len(promises') < Len(promises)
    /\ last'.op = "mint_callback"
    /\ ~last'.join_debtpool

\* numerator and denominator of the collateral ratio of the call recorded in c,
\* with the decimals of the raft taken from its entry in raft_list
CollateralNum(c) ==
    price_oracle[c.token] * c.token_amount * Pow10(raft_list[c.raft].decimals) * 100

CollateralDen(c) ==
    price_oracle[c.raft] * c.raft_amount * Pow10(token_list[c.token].decimals)

\* floor(CollateralNum / CollateralDen) is at least the minimum collateral
\* ratio configured on the raft asset
CollateralSufficient(c) ==
    CollateralNum(c) >= raft_list[c.raft].collateral_ratio * CollateralDen(c)

\* C20: on the individual path the mint callback credits the AccountBook (and
\* appends the Collateral record) exactly when floor(price(token) *
\* token_amount * 10^raft_decimals * 100 / (price(raft) * raft_amount *
\* 10^token_decimals)) is at least the minimum collateral ratio configured on
\* the raft asset; otherwise it aborts, AccountBook unchanged, no record appended.
C20_IndividualMintThreshold ==
    [][IndividualCallback =>
        IF CollateralSufficient(last')
        THEN /\ last'.ok
             /\ account_book' = AccountBook_mint(account_book, last'.sender_id,
                                                 last'.raft, last'.raft_amount)
             /\ Len(collaterals') = Len(collaterals) + 1
        ELSE /\ ~last'.ok
             /\ UNCHANGED <<account_book, collaterals>>
    ]_vars

\* ---- the callback of an outbound transfer ----------------------------------
\* this step is an exchange_callback_post_withdraw; the transfer it resolves
\* (recipient sender_id, token, token_amount) and its result are in last'
ReleaseCallback ==
    /\ Len(promises') < Len(promises)
    /\ last'.op = "exchange_callback_post_withdraw"

FailedReleaseCallback == ReleaseCallback /\ last'.promise_result = "Failed"

\* the deposit row of an account for a token, 0 when account or row is missing
DepositRow(accs, account_id, token) ==
    IF account_id \in DOMAIN accs THEN Get(accs[account_id].tokens, token, 0) ELSE 0

\* the account can take a row for the token: the row is registered, or the
\* storage of one more row is paid for
CanHoldRow(accs, account_id, token) ==
    /\ account_id \in DOMAIN accs
    /\ \/ token \in DOMAIN accs[account_id].tokens
       \/ (INIT_ACCOUNT_STORAGE
             + (Cardinality(DOMAIN accs[account_id].tokens) + 1)
                 * (KEY_PREFIX_ACC + ACC_ID_AS_KEY_STORAGE + U128_STORAGE))
            * storage_byte_cost <= accs[account_id].near_amount

\* accounts' is accounts with the row (account_id, token) raised by amount and
\* nothing else changed
OnlyRowCredited(account_id, token, amount) ==
    /\ DOMAIN accounts' = DOMAIN accounts \cup {account_id}
    /\ \A a \in DOMAIN accounts \ {account_id} : accounts'[a] = accounts[a]
    /\ accounts'[account_id].near_amount =
           Get(accounts, account_id, Account_new).near_amount
    /\ DOMAIN accounts'[account_id].tokens =
           DOMAIN Get(accounts, account_id, Account_new).tokens \cup {token}
    /\ \A t \in DOMAIN accounts'[account_id].tokens :
           accounts'[account_id].tokens[t] =
               DepositRow(accounts, account_id, t) + (IF t = token THEN amount ELSE 0)

\* C23: when an outbound transfer of X to U fails and U's account exists and
\* can hold the token row, the callback raises U's deposit row for the token
\* by exactly X and changes no other row of any account.
C23_FailedTransferRecredit ==
    [][(/\ FailedReleaseCallback
        /\ CanHoldRow(accounts, last'.sender_id, last'.token))
       => /\ last'.ok
          /\ OnlyRowCredited(last'.sender_id, last'.token, last'.token_amount)
    ]_vars

\* a failed transfer was credited back to alice's registered row while bob
\* holds a deposit of his own and the owner has no lost-found account
C23_Witness ==
    /\ last.op = "exchange_callback_post_withdraw"
    /\ last.promise_result = "Failed"
    /\ last.ok
    /\ last.sender_id = "alice"
    /\ DepositRow(accounts, "alice", last.token) > last.token_amount
    /\ DepositRow(accounts, "bob", last.token) > 0
    /\ OWNER \notin DOMAIN accounts

\* C24: when an outbound transfer of X of a whitelisted token fails and the
\* recipient's account is missing or cannot pay for the token row, the
\* callback raises the owner's deposit row for the token by exactly X and
\* leaves the recipient's account unchanged.
C24_FailedTransferLostFound ==
    [][(/\ FailedReleaseCallback
        /\ last'.token \in whitelisted_tokens
        /\ ~CanHoldRow(accounts, last'.sender_id, last'.token)
        /\ last'.sender_id # owner_id)
       => /\ last'.ok
          /\ OnlyRowCredited(owner_id, last'.token, last'.token_amount)
    ]_vars

\* a failed transfer to alice, whose account had no room for the row, was
\* credited to the owner
C24_Witness ==
    /\ last.op = "exchange_callback_post_withdraw"
    /\ last.promise_result = "Failed"
    /\ last.ok
    /\ last.sender_id = "alice"
    /\ last.token \notin DOMAIN accounts["alice"].tokens
    /\ DepositRow(accounts, OWNER, last.token) = last.token_amount

\* C25: when a failed outbound transfer cannot be credited back to the
\* recipient and the token is not whitelisted at callback time, the callback
\* fails and no account is credited.
C25_LostFoundRejectsNonWhitelisted ==
    [][(/\ FailedReleaseCallback
        /\ last'.token \notin whitelisted_tokens
        /\ ~CanHoldRow(accounts, last'.sender_id, last'.token))
       => /\ ~last'.ok
          /\ UNCHANGED accounts
    ]_vars

\* the callback of a failed transfer of a token no longer whitelisted failed
C25_Witness ==
    /\ last.op = "exchange_callback_post_withdraw"
    /\ last.promise_result = "Failed"
    /\ ~last.ok
    /\ last.token \notin whitelisted_tokens
    /\ OWNER \notin DOMAIN accounts

\* C26: a release issues one outbound transfer; its callback consumes that
\* transfer and issues none; after a successful transfer the callback changes
\* no ledger state, after a failed one it takes exactly one of: credit to the
\* recipient, credit to the owner, abort.
C26_OneOutcomePerRelease ==
    [][/\ (last'.op = "redeem_in_accountbook" /\ last'.ok)
          => /\ Len(promises') = Len(promises) + 1
             /\ promises'[Len(promises')].kind = "ft_transfer"
       /\ ReleaseCallback
          => /\ \E i \in DOMAIN promises :
                  /\ promises[i].kind = "ft_transfer"
                  /\ promises' = RemoveAt(promises, i)
             /\ UNCHANGED <<debt_pool, account_book, collaterals>>
             /\ last'.promise_result = "Successful" => UNCHANGED accounts
             /\ last'.promise_result = "Failed" =>
                  \/ /\ last'.ok
                     /\ CanHoldRow(accounts, last'.sender_id, last'.token)
                     /\ OnlyRowCredited(last'.sender_id, last'.token, last'.token_amount)
                  \/ /\ last'.ok
                     /\ ~CanHoldRow(accounts, last'.sender_id, last'.token)
                     /\ OnlyRowCredited(owner_id, last'.token, last'.token_amount)
                  \/ /\ ~last'.ok
                     /\ UNCHANGED accounts
    ]_vars

\* the transfer of a release succeeded and its callback has run: the debit
\* of alice's row stands
C26_Witness ==
    /\ last.op = "exchange_callback_post_withdraw"
    /\ last.promise_result = "Successful"
    /\ last.sender_id = "alice"
    /\ promises = <<>>
    /\ DepositRow(accounts, "alice", last.token) = 0
    /\ Len(collaterals) = MaxCollaterals

\* C27: applying the compensation of a failed transfer twice leaves every
\* deposit row as applying it once does.
C27_CompensationIdempotent ==
    \A i \in DOMAIN promises :
        promises[i].kind = "ft_transfer" =>
            LET p == promises[i]
                once == compensate(accounts, whitelisted_tokens, owner_id, p.token,
                                   p.sender_id, p.token_amount)
                twice == compensate(once.accounts, whitelisted_tokens, owner_id, p.token,
                                    p.sender_id, p.token_amount)
            IN  twice.accounts = once.accounts

\* ---- the Collateral log -----------------------------------------------------
\* this step is a mint_callback that ran to its end
MintCallbackDone ==
    /\ Len(promises') < Len(promises)
    /\ last'.op = "mint_callback"
    /\ last'.ok

\* C22: after a mint completes for user U, U's list of collateral indices
\* holds the index of the record just appended, so that redeem_in_debtpool by
\* U finds an index list.
C22_UserCollateralIndex ==
    [][MintCallbackDone =>
        /\ last'.sender_id \in DOMAIN user_collaterals'
        /\ \E k \in DOMAIN user_collaterals'[last'.sender_id] :
              user_collaterals'[last'.sender_id][k] = Len(collaterals') - 1
    ]_vars

BookRowSum(ab, raft) ==
    SumMap([k \in {j \in DOMAIN ab.user_raft_amounts : j[2] = raft} |->
               ab.user_raft_amounts[k]])

\* C29: for every asset the AccountBook total equals the sum of the
\* per-(user, asset) rows, and no row or total is below zero.
C29_AccountBookAttribution ==
    /\ \A raft \in Rafts :
          AccountBook_query_raft_amount(account_book, raft) = BookRowSum(account_book, raft)
    /\ \A raft \in DOMAIN account_book.raft_amounts : account_book.raft_amounts[raft] >= 0
    /\ \A k \in DOMAIN account_book.user_raft_amounts : account_book.user_raft_amounts[k] >= 0

\* C30: withdraw_in_accountbook(asset, amount) with amount 0, or above the
\* caller's row, or above the asset's total, fails: no mint of the synthetic
\* token is issued and the AccountBook is unchanged.
C30_OverWithdrawFails ==
    [][(/\ last'.op = "withdraw_in_accountbook"
        /\ \/ last'.token_amount = 0
           \/ last'.token_amount >
                 AccountBook_query_user_raft_amount(account_book, last'.sender_id, last'.raft)
           \/ last'.token_amount > AccountBook_query_raft_amount(account_book, last'.raft))
       => /\ ~last'.ok
          /\ UNCHANGED <<account_book, promises>>
    ]_vars

\* a withdrawal of more than the caller's row, which is not empty, failed
C30_Witness ==
    /\ last.op = "withdraw_in_accountbook"
    /\ ~last.ok
    /\ AccountBook_query_user_raft_amount(account_book, last.sender_id, last.raft) > 0
    /\ last.token_amount >
          AccountBook_query_user_raft_amount(account_book, last.sender_id, last.raft)
    /\ promises = <<>>

\* C21: the Collateral log is append-only and immutable: a mint callback that
\* runs to its end appends exactly one record with the requested issuer,
\* token, amounts and path and state 0; every other step, the two redemption
\* paths included, leaves the log as it is.
C21_CollateralLogAppendOnly ==
    [][IF MintCallbackDone
       THEN collaterals' =
                Append(collaterals,
                       [issuer |-> last'.sender_id, token |-> last'.token,
                        token_amount |-> last'.token_amount, raft |-> last'.raft,
                        raft_amount |-> last'.raft_amount,
                        join_debtpool |-> last'.join_debtpool, state |-> 0])
       ELSE UNCHANGED collaterals
    ]_vars

\* alice redeemed a record from the AccountBook and both records she minted
\* are still in the log
C21_Witness ==
    /\ last.op = "redeem_in_accountbook"
    /\ last.ok
    /\ Len(collaterals) = MaxCollaterals
    /\ \A i \in DOMAIN collaterals : collaterals[i].issuer = "alice" /\ collaterals[i].state = 0

\* C31: a feed writes the given price for its asset whatever was there before
\* and leaves every other asset's entry as it was; a read succeeds exactly for
\* an asset that has an entry, returns that entry and changes nothing.
C31_OracleMap ==
    [][/\ last'.op = "feed_price" =>
            /\ has_price(price_oracle', last'.token)
            /\ get_price(price_oracle', last'.token) = last'.token_amount
            /\ \A b \in Assets \ {last'.token} :
                  /\ has_price(price_oracle', b) <=> has_price(price_oracle, b)
                  /\ has_price(price_oracle, b) =>
                        get_price(price_oracle', b) = get_price(price_oracle, b)
       /\ last'.op = "get_price" =>
            /\ last'.ok <=> has_price(price_oracle, last'.token)
            /\ last'.ok => last'.token_amount = get_price(price_oracle, last'.token)
            /\ price_oracle' = price_oracle]_vars

\* a read returned a fed, non-zero price while another asset was never fed
C31_Witness ==
    /\ last.op = "get_price"
    /\ last.ok
    /\ last.token_amount > 0
    /\ \E b \in Assets : ~has_price(price_oracle, b)

\* C32: a recalculation of the debt ratios whose new total value is zero
\* leaves the pool as it was: no ratio is rescaled and the sender of
\* calc_debt_ratio gets no entry.
C32_ZeroValueGuard ==
    [][(last'.op \in {"calc_debt_ratio", "calc_all_debt_ratio"} /\ last'.raft_amount = 0)
          => /\ debt_pool'.debt_ratios = debt_pool.debt_ratios
             /\ debt_pool' = debt_pool]_vars

\* calc_debt_ratio ran with a zero new total value for a sender without a
\* ratio while other users hold non-zero ratios
C32_Witness ==
    /\ last.op = "calc_debt_ratio"
    /\ last.raft_amount = 0
    /\ last.token_amount > 0
    /\ last.sender_id \notin DOMAIN debt_pool.debt_ratios
    /\ \E u \in DOMAIN debt_pool.debt_ratios : debt_pool.debt_ratios[u] > 0

\* C33: with the burn or mint of the chain successful, a deposit callback adds
\* exactly the deposited amount to the row and the total the book holds when
\* the callback runs, and a withdrawal callback takes exactly the withdrawn
\* amount from a row and a total that hold at least that much; so after all
\* callbacks each row is its initial value plus the deposits minus the
\* withdrawals, whatever the interleaving.
C33_NoLostUpdate ==
    [][(last'.promise_result = "Successful"
        /\ last'.op \in {"account_book_callback_deposit", "account_book_callback_withdraw"})
          => LET delta == IF last'.op = "account_book_callback_deposit"
                          THEN last'.token_amount ELSE 0 - last'.token_amount
                 row(ab) == AccountBook_query_user_raft_amount(ab, last'.sender_id, last'.raft)
                 total(ab) == AccountBook_query_raft_amount(ab, last'.raft)
             IN  /\ row(account_book') = row(account_book) + delta
                 /\ total(account_book') = total(account_book) + delta
                 /\ row(account_book') >= 0
                 /\ total(account_book') >= 0]_vars

\* C34: a deposit callback whose burn failed, or a withdrawal callback whose
\* mint failed, leaves the AccountBook unchanged.
C34_BookCallbackGated ==
    [][(last'.promise_result = "Failed"
        /\ last'.op \in {"account_book_callback_deposit", "account_book_callback_withdraw"})
          => account_book' = account_book]_vars

\* the sum of the pool's per-(user, asset) rows of an asset
PoolRowSum(dp, raft) ==
    SumMap([k \in {j \in DOMAIN dp.user_raft_amounts : j[2] = raft} |->
               dp.user_raft_amounts[k]])

\* C35: for every asset the pool tracks, the signed net position equals the
\* sum of all users' pooled rows of that asset, the owner's fee row included.
C35_DebtPoolAttribution ==
    \A raft \in DOMAIN debt_pool.raft_amounts :
        NetPosition(debt_pool, raft) = PoolRowSum(debt_pool, raft)

\* the records a user issued into the pool (join_debtpool = true)
PooledBy(user) == {i \in IssuedBy(user) : collaterals[i].join_debtpool}

BookRedeemStep == last'.op = "redeem_in_accountbook"

\* the record named by the redeem_in_accountbook call of this step
BookRedeemRecord == CHOOSE c \in query_collateral(last'.token_amount) : TRUE

\* the asserts of redeem_in_accountbook on the record: it exists, the caller
\* issued it, it was minted individually and its state is 0
BookRedeemAuthorized ==
    /\ query_collateral(last'.token_amount) # {}
    /\ BookRedeemRecord.issuer = last'.sender_id
    /\ BookRedeemRecord.join_debtpool = FALSE
    /\ BookRedeemRecord.state = 0

\* C38: redeem_in_accountbook(id) fails and changes nothing unless the record
\* exists, the caller issued it, join_debtpool is false and state is 0; when
\* it succeeds, with fee = floor(raft_amount * interest_fee / FEE_DIVISOR), the
\* caller's AccountBook row goes down by raft_amount + fee, the owner's row up
\* by fee (both applied to the one row when the owner is the caller), no other
\* row moves, the asset's total goes down by raft_amount, and the caller's
\* deposit row goes down by token_amount in the step that issues the transfer.
C38_BookRedeemEffects ==
    [][BookRedeemStep =>
        /\ ~BookRedeemAuthorized => ~last'.ok
        /\ ~last'.ok => UNCHANGED <<debt_pool, account_book, accounts, promises, collaterals>>
        /\ last'.ok =>
            LET c == BookRedeemRecord
                fee == (c.raft_amount * interest_fee) \div FEE_DIVISOR
                row(ab, user) == AccountBook_query_user_raft_amount(ab, user, c.raft)
                debit(user) == IF user = last'.sender_id THEN c.raft_amount + fee ELSE 0
                credit(user) == IF user = owner_id THEN fee ELSE 0
            IN  /\ \A user \in AccountIds :
                      row(account_book', user)
                          = row(account_book, user) - debit(user) + credit(user)
                /\ AccountBook_query_raft_amount(account_book', c.raft)
                      = AccountBook_query_raft_amount(account_book, c.raft) - c.raft_amount
                /\ accounts'[last'.sender_id].tokens[c.token]
                      = accounts[last'.sender_id].tokens[c.token] - c.token_amount
                /\ promises' = Append(promises,
                                      internal_send_tokens(last'.sender_id, c.token,
                                                           c.token_amount))
    ]_vars

\* C39: the issuer of an individually minted record whose AccountBook row, and
\* the asset's total with it, hold exactly raft_amount plus the interest fee
\* can redeem the record: the call succeeds and leaves the row and the total
\* at zero.
C39_MintRedeemRoundTrip ==
    [][(/\ BookRedeemStep
        /\ assert_contract_running
        /\ BookRedeemAuthorized
        /\ DepositCoversLocked(last'.sender_id)
        /\ LET c == BookRedeemRecord
               due == c.raft_amount + interest_fee_amount(c.raft_amount)
           IN  /\ AccountBook_query_user_raft_amount(account_book, last'.sender_id, c.raft)
                     = due
               /\ AccountBook_query_raft_amount(account_book, c.raft) = due) =>
            /\ last'.ok
            /\ AccountBook_query_user_raft_amount(account_book', last'.sender_id,
                                                  BookRedeemRecord.raft) = 0
            /\ AccountBook_query_raft_amount(account_book', BookRedeemRecord.raft) = 0
    ]_vars

\* the last call was a successful redeem_in_accountbook of the record
BookRedeemed(collateral_id) ==
    /\ last.op = "redeem_in_accountbook"
    /\ last.ok
    /\ last.token_amount = collateral_id

\* C36: a record's collateral is debited and sent out at most once: a
\* redeem_in_accountbook that directly follows a successful
\* redeem_in_accountbook of the same record does not succeed again.
C36_ReleasedAtMostOnce ==
    [][\A collateral_id \in 0..(MaxCollaterals - 1) :
          ~(BookRedeemed(collateral_id) /\ BookRedeemed(collateral_id)')]_vars

\* ---- the pause gate ------------------------------------------------------------
\* the user-facing entry points
UserEntryPoints ==
    {"mint", "swap_in_debtpool", "swap_in_accountbook", "redeem_in_debtpool",
     "redeem_in_accountbook", "deposit_in_accountbook", "withdraw_in_accountbook",
     "ft_on_transfer", "register_tokens", "unregister_tokens"}

\* C40: while the contract is Paused every call of a user-facing entry point
\* fails, changes no ledger (DebtPool, AccountBook, deposit rows, collateral
\* log) and issues no external call.
C40_PauseGate ==
    [][(state = "Paused" /\ last'.op \in UserEntryPoints) =>
        /\ ~last'.ok
        /\ UNCHANGED <<config, price_oracle, debt_pool, account_book, accounts, collaterals,
                       user_collaterals, promises>>
    ]_vars

\* a withdrawal that the caller's row and the asset's total cover failed while
\* the contract was Paused
C40_Witness ==
    /\ state = "Paused"
    /\ last.op = "withdraw_in_accountbook"
    /\ ~last.ok
    /\ last.token_amount > 0
    /\ AccountBook_query_user_raft_amount(account_book, last.sender_id, last.raft)
          >= last.token_amount
    /\ AccountBook_query_raft_amount(account_book, last.raft) >= last.token_amount
    /\ Len(promises) = 0

====
